---- MODULE Spec2Model ----
(***************************************************************************)
(* Model of the NYCU-Bot multi-agent pipeline: the in-process MessageBus,  *)
(* InformationAgent.check_and_notify, FatherAgent, MotherAgent,            *)
(* ContentAgent and the five platform agents.                              *)
(*                                                                         *)
(* Direct delivery (MessageBus.send_direct) is a nested awaited call, so   *)
(* one delivery chain is one coroutine call stack.  Two asyncio tasks can  *)
(* drive a chain: the main task (check_and_notify) and the bus consume     *)
(* loop (MessageBus.start), which delivers what was given to publish().    *)
(* asyncio schedules cooperatively: a task runs alone from one real        *)
(* suspension point (asyncio.sleep, the LLM calls in a worker thread, the  *)
(* queue get) to the next.  Every action is such a run: the handler that   *)
(* is resumed together with every nested delivery it makes, up to the next *)
(* suspension.  The variable delivered lists the envelopes that were       *)
(* delivered during the last action, in order.                             *)
(*                                                                         *)
(* Abstractions: an announcement is its id; an envelope has no timestamp   *)
(* and no message_id; a PostResult keeps success, platform and error.      *)
(*                                                                         *)
(* Parts of the code are also modelled on their own: the function          *)
(* FatherAgent._calculate_priority over titles (SpecPriority); FatherAgent *)
(* and MotherAgent with any envelope the queue may hold for them           *)
(* (SpecFather, SpecMother, SpecResults); the pipeline with an endpoint    *)
(* missing from the registry (SpecUnregistered) or with the task of the    *)
(* loop cancelled (SpecCancel); and MessageBus with BaseAgent for two      *)
(* agents whose handlers are any code (SpecBus, SpecSubscribers,           *)
(* SpecCallbacks, SpecHandlers, SpecRegistry, SpecSingleton, FairLoop),    *)
(* where the task of MessageBus.start keeps a stack of handler frames and  *)
(* the other tasks run only while it is suspended.                         *)
(***************************************************************************)
EXTENDS Integers, Sequences, FiniteSets, TLC

\* ----------------------------------------------------------------- bounds
MaxAnn == 2        \* announcements that enter the pipeline (scanned or published)
MaxMsgs == 3       \* envelopes created by publish() and send_message()
MaxSubs == 2       \* calls of subscribe()
MaxRegs == 2       \* calls of register_handler()
MaxObjects == 2    \* BaseAgent objects constructed with one name, orchestrators

\* announcement ids, numbered in the order of their first appearance
Ids == 1..MaxAnn
None == 0
Chains == {"main", "bus"}

\* ------------------------------------------------------------- constants
platform_agentsMutant ==
  <<"FacebookAgent", "TwitterAgent", "InstagramAgent", "LinkedInAgent", "RedditAgent">>

platform_agents ==
  <<"TwitterAgent", "FacebookAgent", "InstagramAgent", "LinkedInAgent", "RedditAgent">>

AllAgents ==
  {"InformationAgent", "FatherAgent", "MotherAgent", "ContentAgent"}
    \cup {platform_agents[i] : i \in 1..Len(platform_agents)}

\* the 'platform' value each endpoint puts in its POST_RESULT payload
PlatformKey(agent) ==
  CASE agent = "TwitterAgent" -> "twitter"
    [] agent = "FacebookAgent" -> "facebook"
    [] agent = "InstagramAgent" -> "instagram"
    [] agent = "LinkedInAgent" -> "linkedin"
    [] agent = "RedditAgent" -> "reddit"

PlatformKeys == {PlatformKey(platform_agents[i]) : i \in 1..Len(platform_agents)}

\* ------------------------------------------------------------- variables
VARIABLES
  agents,                \* MessageBus.agents: the registered names
  registered,            \* MessageBus.agents: the object under each name
  instance,              \* MessageBus._instance, with its _initialized
  message_queue,         \* MessageBus.message_queue
  announced,             \* announcements scanned or handed to publish() so far
  known,                 \* number of distinct ids that have appeared so far
  llm,                   \* ContentAgent.llm: "none", or how its calls end
  working,               \* the endpoints whose post() succeeds in this run
  failure,               \* how the platform call of the other endpoints fails
  twitter_last_post,     \* TwitterAgent._last_post_time is set
  active_tasks,          \* MotherAgent.active_tasks (insertion-ordered dict)
  results_buffer,        \* MotherAgent.results_buffer
  clock,                 \* datetime.now() as a logical clock
  pending_announcements, \* FatherAgent.pending_announcements (its keys)
  processing_stats,      \* FatherAgent.processing_stats
  processed_ids,         \* ProcessedTracker.processed_ids
  todo,                  \* check_and_notify: announcements not yet notified
  pc,                    \* per task: the await at which it is suspended
  loc,                   \* per task: locals of the suspended frames
  delivered,             \* envelopes delivered during the last action
  hist,                  \* history of the run (observation only)
  title,                 \* _calculate_priority: the title of its announcement
  priority,              \* _calculate_priority: what the call returned
  earlier,               \* the matches and the result of the call before
  subscribers,           \* MessageBus.subscribers: name -> callbacks, in order
  running,               \* MessageBus._running
  message_handlers,      \* BaseAgent._message_handlers of every agent
  consumer,              \* the task that runs MessageBus.start
  bus_hist               \* history of the bus (observation only)

vars == <<agents, registered, instance, message_queue, announced, known, llm, working, failure,
          twitter_last_post, active_tasks, results_buffer, clock,
          pending_announcements, processing_stats, processed_ids, todo,
          pc, loc, delivered, hist, title, priority, earlier,
          subscribers, running, message_handlers, consumer, bus_hist>>

\* FatherAgent._calculate_priority called on its own
calls == <<title, priority, earlier>>

\* the objects of the nine agents and their tasks
at_work == <<announced, known, llm, working, failure, twitter_last_post,
             active_tasks, results_buffer, clock, pending_announcements, processing_stats,
             processed_ids, todo, pc, loc, delivered, hist>>

pipeline == <<agents, message_queue, at_work>>

\* MessageBus and BaseAgent, beyond the registry and the queue
library == <<registered, instance, subscribers, running, message_handlers, consumer, bus_hist>>

\* ---------------------------------------------------------------- helpers
EmptyMap == [x \in {} |-> None]

Put(f, k, v) == [x \in (DOMAIN f) \cup {k} |-> IF x = k THEN v ELSE f[x]]

DelMutant(f, k) == f

Del(f, k) == [x \in (DOMAIN f) \ {k} |-> f[x]]

RemoveAt(s, i) == [j \in 1..(Len(s) - 1) |-> IF j < i THEN s[j] ELSE s[j + 1]]

MaxOf(S) == CHOOSE x \in S : \A y \in S : y <= x

\* ids are opaque, so they are numbered as they first appear: after k
\* distinct ids the next announcement carries one of them or id k + 1
InOrderOfAppearance(s, k) ==
  \A i \in 1..Len(s) : s[i] <= 1 + MaxOf({k} \cup {s[j] : j \in 1..(i - 1)})

\* AgentMessage(msg_type, sender, receiver, payload)
AgentMessage(t, s, r, p) == [msg_type |-> t, sender |-> s, receiver |-> r, payload |-> p]

\* GeneratedContent: title_zh and where the texts come from
NoContent == [title_zh |-> None, kind |-> "none"]

\* locals of the frames of one chain: the announcement, the content, the
\* position in platform_agents, and whether the chain began in
\* FatherAgent._handle_new_announcement, which counts it when it returns
NoLoc == [ann |-> None, content |-> NoContent, idx |-> 0, forwarding |-> FALSE]

\* position of the key tid in active_tasks, 0 when absent
TaskIndex(tasks, tid) ==
  IF \E i \in 1..Len(tasks) : tasks[i].id = tid
    THEN CHOOSE i \in 1..Len(tasks) : tasks[i].id = tid
    ELSE 0

TaskIds(tasks) == {tasks[i].id : i \in 1..Len(tasks)}

\* d[key] = value on an insertion-ordered dict: an existing key keeps its
\* position and gets the new value, a new key is appended
DictSetMutant(tasks, rec) == Append(tasks, rec)

DictSet(tasks, rec) ==
  IF TaskIndex(tasks, rec.id) # 0
    THEN [tasks EXCEPT ![TaskIndex(tasks, rec.id)] = rec]
    ELSE Append(tasks, rec)

\* the record MotherAgent._handle_task_assignment stores
NewTaskMutant(tid, t) ==
  [id |-> tid, status |-> "posting", started_at |-> t,
   generated_content |-> NoContent, post_results |-> EmptyMap]

NewTask(tid, t) ==
  [id |-> tid, status |-> "generating_content", started_at |-> t,
   generated_content |-> NoContent, post_results |-> EmptyMap]

\* MotherAgent._handle_post_result: the first task whose status is 'posting'
FindPostingTask(tasks) ==
  IF \E i \in 1..Len(tasks) : tasks[i].status = "posting"
    THEN tasks[CHOOSE i \in 1..Len(tasks) :
                 /\ tasks[i].status = "posting"
                 /\ \A j \in 1..(i - 1) : tasks[j].status # "posting"].id
    ELSE None

\* expected_count = len(self.platform_agents)
ExpectedCountMutant == Len(platform_agents) - 1

ExpectedCount == Len(platform_agents)

\* MotherAgent._finalize_task: success_count and the reported status
SuccessCount(results) == Cardinality({p \in DOMAIN results : results[p].success})

FinalStatusMutant(results) ==
  IF SuccessCount(results) = Cardinality(DOMAIN results) THEN "completed" ELSE "failed"

FinalStatus(results) == IF SuccessCount(results) > 0 THEN "completed" ELSE "failed"

\* the 'results' breakdown of the STATUS_UPDATE payload
ResultsBreakdownMutant(results) ==
  [p \in DOMAIN results |-> [success |-> TRUE]]

ResultsBreakdown(results) ==
  [p \in DOMAIN results |-> [success |-> results[p].success]]

\* how a platform call fails: the client or the credentials are missing,
\* the platform answers with an HTTP error, or the call raises
FailureKinds == {"credentials", "http_error", "exception"}

\* PostResult(success, platform, error=...)
PostResult(success, platform, error) ==
  [success |-> success, platform |-> platform, error |-> error]

\* an exception leaves post() instead of a PostResult
Raised == PostResult(FALSE, "none", "raised")

\* post() of an endpoint: the test for client or credentials returns a
\* failed PostResult, an HTTP error status does, and 'except Exception'
\* turns what the call raises into one
PostMutant(platform, ok, kind) ==
  IF ok THEN PostResult(TRUE, platform, "none")
  ELSE IF kind = "exception" THEN Raised
  ELSE PostResult(FALSE, platform, kind)

Post(platform, ok, kind) ==
  IF ok THEN PostResult(TRUE, platform, "none") ELSE PostResult(FALSE, platform, kind)

\* payload.get('platform') and payload.get('result') of a payload that
\* lacks them
NoPlatform == "none"

NoResult == PostResult(FALSE, "none", "none")

\* the payload every endpoint sends back in its POST_RESULT
PostResultPayload(platform, result) == [platform |-> platform, result |-> result]

\* the payload of a POST_REQUEST
PostRequestPayload(post, tid, agent) ==
  [post |-> post, task_id |-> tid,
   subreddit |-> IF agent = "RedditAgent" THEN "nycu" ELSE "none"]

\* MotherAgent._create_social_post
CreateSocialPost(ann, content) == [title |-> ann, generated_content |-> content]

\* ContentAgent._fallback_generate
FallbackGenerateMutant(ann) == NoContent

FallbackGenerate(ann) == [title_zh |-> ann, kind |-> "fallback"]

\* how the LLM behaves in a run: not constructed, answering, every call
\* timing out, or a call raising outside the inner try blocks
LlmModes == {"none", "answers", "times_out", "raises"}

\* ContentAgent.generate_content: without an LLM and when the outer try
\* catches an exception the result is _fallback_generate; a call that times
\* out returns the raw announcement field and the result is still built
GenerateContent(mode, ann) ==
  CASE mode = "answers" -> [title_zh |-> ann, kind |-> "llm"]
    [] mode = "times_out" -> [title_zh |-> ann, kind |-> "raw"]
    [] OTHER -> FallbackGenerate(ann)

\* the outcomes of the endpoints in a run: any set of them may work
WorkingConfigs == SUBSET PlatformKeys

\* the runs in which the endpoints other than Twitter do alike; Twitter's
\* is the only outcome that changes what runs next (its rate-limit sleep)
TwitterAndOthers ==
  {PlatformKeys, {}, {"twitter"}, PlatformKeys \ {"twitter"}}

\* ------------------------------------------- MessageBus and BaseAgent
\* the names of two BaseAgent instances of any kind
AgentNames == {"agent_a", "agent_b"}

\* two of the values of MessageType
MessageTypes == {"new_announcement", "status_update"}

\* the objects constructed with one name are numbered in the order of
\* their construction; no object
NoAgent == 0

\* no envelope
NoMessage == AgentMessage("none", "none", "none", None)

\* the abstract method BaseAgent.handle_message, as a handler
handle_message == 0

\* the task of MessageBus.start before it first runs
NotStarted == [pc |-> "created", message |-> NoMessage, cb |-> 0, stack |-> <<>>]

NoHistory ==
  [created |-> <<>>, dequeued |-> <<>>, dropped |-> {}, started |-> {},
   finished |-> {}, raised |-> {}, invoked |-> <<>>, registrations |-> <<>>,
   subscribed |-> 0, stop_called |-> FALSE,
   constructed |-> [a \in AgentNames |-> 0], instances |-> 0,
   orchestrators |-> 0, found |-> [agents |-> 0, callbacks |-> 0, queued |-> 0]]

\* MessageBus._instance = None
NoInstance == [id |-> 0, initialized |-> FALSE]

\* the one MessageBus, after its first construction
Singleton == [id |-> 1, initialized |-> TRUE]

\* ------------------------------------------ FatherAgent._calculate_priority
\* a title is the sequence of its characters, each written in pinyin
high_priority_keywords ==
  << <<"guo", "ji">>, <<"shi", "jie4">>, <<"guan", "jun">>,
     <<"di", "yi">>, <<"zui", "jia">>, <<"jie2", "chu">> >>

\* keyword in announcement.title
Contains(t, keyword) ==
  \E i \in 1..(Len(t) - Len(keyword) + 1) :
    SubSeq(t, i, i + Len(keyword) - 1) = keyword

Min(a, b) == IF a <= b THEN a ELSE b

\* priority = 5
BasePriority == 5

\* the cap of min(priority + 1, 10)
MaxPriority == 10

\* priority = min(priority + 1, 10)
RaiseMutant(p) == p + 1

Raise(p) == Min(p + 1, MaxPriority)

\* the loop over high_priority_keywords, from the keyword at position i on
RECURSIVE PriorityLoop(_, _, _)
PriorityLoop(t, i, p) ==
  IF i > Len(high_priority_keywords)
    THEN p
    ELSE PriorityLoop(t, i + 1,
                      IF Contains(t, high_priority_keywords[i]) THEN Raise(p) ELSE p)

CalculatePriority(t) == PriorityLoop(t, 1, BasePriority)

\* the titles the function is called with: every keyword is absent, occurs
\* once, occurs twice, or has its two characters apart
Forms(i) ==
  IF i % 2 = 1 THEN {"absent", "once", "apart"} ELSE {"absent", "once", "twice"}

Piece(keyword, form) ==
  CASE form = "absent" -> <<>>
    [] form = "once" -> keyword
    [] form = "twice" -> keyword \o keyword
    [] form = "apart" -> <<keyword[1], "x", keyword[2]>>

RECURSIVE Join(_, _)
Join(f, i) ==
  IF i > Len(high_priority_keywords)
    THEN <<>>
    ELSE Piece(high_priority_keywords[i], f[i]) \o Join(f, i + 1)

Titles ==
  {Join(f, 1) : f \in {g \in [1..Len(high_priority_keywords) -> {"absent", "once", "twice", "apart"}] :
                         \A i \in DOMAIN g : g[i] \in Forms(i)}}

\* the titles of the announcements at work: those with an odd id name an
\* international championship, the others have no keyword
AnnouncementTitle(announcement) ==
  IF announcement % 2 = 1 THEN <<"guo", "ji", "guan", "jun">> ELSE <<"x">>

\* no call of _calculate_priority has returned yet
NoCall == [matched |-> 0, priority |-> None]




\* ------------------------------------------------------------------- Init
\* the agents after their __init__: ChatOllama may or may not have been
\* constructed (ContentAgent._init_llm).  The LLM and each endpoint behave
\* the same way for every request of one run.
AtStart ==
  /\ message_queue = <<>>
  /\ announced = 0
  /\ known = 0
  /\ llm \in LlmModes
  /\ working \in WorkingConfigs
  /\ failure \in FailureKinds
  /\ twitter_last_post = FALSE
  /\ active_tasks = <<>>
  /\ results_buffer = EmptyMap
  /\ clock = 0
  /\ pending_announcements = {}
  /\ processing_stats = [received |-> 0, forwarded |-> 0, completed |-> 0, failed |-> 0]
  /\ processed_ids = {}
  /\ todo = <<>>
  /\ pc = [c \in Chains |-> "idle"]
  /\ loc = [c \in Chains |-> NoLoc]
  /\ delivered = <<>>
  /\ hist = [fwd |-> [i \in Ids |-> 0], su |-> [i \in Ids |-> 0],
             finalized |-> {}, refinal |-> FALSE]
  /\ title = <<>>
  /\ priority = None
  /\ earlier = NoCall
  /\ registered = [a \in AgentNames |-> NoAgent]
  /\ instance = Singleton
  /\ subscribers = [a \in AgentNames |-> <<>>]
  /\ running = FALSE
  /\ message_handlers = [a \in AgentNames |-> EmptyMap]
  /\ consumer = NotStarted
  /\ bus_hist = NoHistory

\* MultiAgentSystem._init_agents registers the nine agents
InitAny == agents = AllAgents /\ AtStart

\* the runs with two tasks at work are explored for the endpoint outcomes
\* of TwitterAndOthers
Init == InitAny /\ working \in TwitterAndOthers /\ failure = "credentials"

\* ------------------------------------------------- the run of one task
\* what a running task works on: the objects of the agents, the envelopes
\* it has delivered so far, its locals l, and the await at which it
\* suspends ("returned" when the delivery it drives has returned)
Running(l) ==
  [active_tasks |-> active_tasks, results_buffer |-> results_buffer,
   clock |-> clock, pending_announcements |-> pending_announcements,
   processing_stats |-> processing_stats,
   twitter_last_post |-> twitter_last_post,
   delivered |-> <<>>, loc |-> l, at |-> "returned"]

\* Op applied to v, with v evaluated once; the operators below take the
\* outcome s0 of what ran before them and go on from it as st
Strict(v, Op(_)) == CHOOSE r \in {Op(x) : x \in {v}} : TRUE

\* MessageBus.send_direct found the receiver: its receive_message runs
Delivered(s0, m) ==
  Strict(s0, LAMBDA st : [st EXCEPT !.delivered = Append(@, m)])

\* ----------------------------------------------------------- FatherAgent
\* _handle_status_update, what it does to pending_announcements: the id is
\* deleted in the 'completed' branch only
DeletePendingMutant(pending, status, announcement_id) ==
  IF status \in {"completed", "failed"} THEN pending \ {announcement_id} ELSE pending

DeletePending(pending, status, announcement_id) ==
  IF status = "completed" THEN pending \ {announcement_id} ELSE pending

\* _handle_status_update
FatherHandleStatusUpdateMutant(s0, m) ==
  Strict(s0, LAMBDA st :
  LET status == m.payload.status
      announcement_id == m.payload.announcement_id IN
    [st EXCEPT
       !.processing_stats =
          IF status = "completed" THEN [@ EXCEPT !.completed = @ + 1]
          ELSE [@ EXCEPT !.failed = @ + 1],
       !.pending_announcements = DeletePending(@, status, announcement_id)])

FatherHandleStatusUpdate(s0, m) ==
  Strict(s0, LAMBDA st :
  LET status == m.payload.status
      announcement_id == m.payload.announcement_id IN
    [st EXCEPT
       !.processing_stats =
          IF status = "completed" THEN [@ EXCEPT !.completed = @ + 1]
          ELSE IF status = "failed" THEN [@ EXCEPT !.failed = @ + 1]
          ELSE @,
       !.pending_announcements = DeletePending(@, status, announcement_id)])

\* ----------------------------------------------------------- MotherAgent
\* _finalize_task: STATUS_UPDATE to FatherAgent, then the record and its
\* results are deleted
FinalizeTaskMutant(s0, task_id) ==
  Strict(s0, LAMBDA st :
  IF TaskIndex(st.active_tasks, task_id) = 0
    THEN st
    ELSE
      LET results == IF task_id \in DOMAIN st.results_buffer
                       THEN st.results_buffer[task_id] ELSE EmptyMap
          m == AgentMessage("status_update", "MotherAgent", "FatherAgent",
                 [status |-> FinalStatus(results),
                  announcement_id |-> task_id,
                  results |-> ResultsBreakdown(results)])
          s1 == IF m.receiver \in agents
                  THEN FatherHandleStatusUpdate(Delivered(st, m), m)
                  ELSE st
      IN [s1 EXCEPT
            !.active_tasks[TaskIndex(st.active_tasks, task_id)].status = "completed",
            !.results_buffer = Del(@, task_id)])

FinalizeTask(s0, task_id) ==
  Strict(s0, LAMBDA st :
  IF TaskIndex(st.active_tasks, task_id) = 0
    THEN st
    ELSE
      LET results == IF task_id \in DOMAIN st.results_buffer
                       THEN st.results_buffer[task_id] ELSE EmptyMap
          m == AgentMessage("status_update", "MotherAgent", "FatherAgent",
                 [status |-> FinalStatus(results),
                  announcement_id |-> task_id,
                  results |-> ResultsBreakdown(results)])
          s1 == IF m.receiver \in agents
                  THEN FatherHandleStatusUpdate(Delivered(st, m), m)
                  ELSE st
      IN [s1 EXCEPT
            !.active_tasks = RemoveAt(@, TaskIndex(@, task_id)),
            !.results_buffer = Del(@, task_id)])

\* self.results_buffer[task_id][platform] = result
StoreResultMutant(results, platform, result) ==
  IF platform \in DOMAIN results THEN results ELSE Put(results, platform, result)

StoreResult(results, platform, result) == Put(results, platform, result)

\* _handle_post_result
MotherHandlePostResultMutant(s0, m) ==
  Strict(s0, LAMBDA st :
  LET platform == m.payload.platform
      result == m.payload.result
      task_id == FindPostingTask(st.active_tasks) IN
    IF task_id = None
      THEN st
      ELSE
        LET results == StoreResult(st.results_buffer[task_id], platform, result)
            s1 == [st EXCEPT !.results_buffer[task_id] = results]
        IN IF Cardinality(DOMAIN results) >= ExpectedCount
             THEN FinalizeTask(s1, task_id)
             ELSE s1)

MotherHandlePostResult(s0, m) ==
  Strict(s0, LAMBDA st :
  LET platform == m.payload.platform
      result == m.payload.result
      task_id == FindPostingTask(st.active_tasks) IN
    IF platform = NoPlatform \/ result = NoResult \/ task_id = None
      THEN st
      ELSE
        LET results == StoreResult(st.results_buffer[task_id], platform, result)
            s1 == [st EXCEPT !.results_buffer[task_id] = results]
        IN IF Cardinality(DOMAIN results) >= ExpectedCount
             THEN FinalizeTask(s1, task_id)
             ELSE s1)

\* -------------------------------------------------------- platform agents
\* post() of the endpoint and the POST_RESULT it sends back; a tweet that
\* went out sets TwitterAgent._last_post_time
PostAndReport(s0, agent) ==
  Strict(s0, LAMBDA st :
  LET platform == PlatformKey(agent)
      result == Post(platform, platform \in working, failure)
      m == AgentMessage("post_result", agent, "MotherAgent",
             PostResultPayload(platform, result))
      s1 == [st EXCEPT !.twitter_last_post =
                         IF agent = "TwitterAgent" THEN @ \/ result.success ELSE @]
  IN IF result = Raised
       THEN [st EXCEPT !.at = "raised"]
       ELSE IF m.receiver \in agents
         THEN MotherHandlePostResult(Delivered(s1, m), m)
         ELSE s1)

\* _handle_post_request; TwitterAgent.post first sleeps when its last post
\* is less than _min_interval old (too_soon)
PlatformHandlePostRequest(s0, m, too_soon) ==
  Strict(s0, LAMBDA st :
  IF m.receiver = "TwitterAgent" /\ st.twitter_last_post /\ too_soon
    THEN [st EXCEPT !.at = "twitter_wait"]
    ELSE PostAndReport(st, m.receiver))

\* ------------------------------------------- MotherAgent, the fan-out
\* _handle_content_generated, one round of the loop over platform_agents:
\* send the POST_REQUEST, then await asyncio.sleep(1)
MotherNextRequest(s0, idx, too_soon) ==
  Strict(s0, LAMBDA st :
  LET agent == platform_agents[idx]
      m == AgentMessage("post_request", "MotherAgent", agent,
             PostRequestPayload(CreateSocialPost(st.loc.ann, st.loc.content),
                                st.loc.ann, agent))
      s1 == [st EXCEPT !.loc.idx = idx, !.at = "mother_wake"]
  IN IF m.receiver \in agents
       THEN PlatformHandlePostRequest(Delivered(s1, m), m, too_soon)
       ELSE s1)

\* _handle_content_generated up to the first suspension
MotherHandleContentGeneratedMutant(s0, m, too_soon) ==
  Strict(s0, LAMBDA st :
  LET announcement == m.payload.announcement
      generated_content == m.payload.generated_content
      task_id == announcement
      tasks == IF TaskIndex(st.active_tasks, task_id) = 0
                 THEN Append(st.active_tasks, NewTask(task_id, st.clock))
                 ELSE st.active_tasks
      i == TaskIndex(tasks, task_id) IN
    IF announcement = None \/ generated_content = NoContent
      THEN st
      ELSE MotherNextRequest(
             [st EXCEPT !.active_tasks =
                          [tasks EXCEPT ![i].status = "posting",
                                        ![i].generated_content = generated_content],
                        !.results_buffer =
                          IF task_id \in DOMAIN @ THEN @ ELSE Put(@, task_id, EmptyMap),
                        !.loc.ann = announcement,
                        !.loc.content = generated_content],
             1, too_soon))

MotherHandleContentGenerated(s0, m, too_soon) ==
  Strict(s0, LAMBDA st :
  LET announcement == m.payload.announcement
      generated_content == m.payload.generated_content
      task_id == announcement
      i == TaskIndex(st.active_tasks, task_id) IN
    IF announcement = None \/ generated_content = NoContent \/ i = 0
      THEN st
      ELSE MotherNextRequest(
             [st EXCEPT !.active_tasks[i].status = "posting",
                        !.active_tasks[i].generated_content = generated_content,
                        !.loc.ann = announcement,
                        !.loc.content = generated_content],
             1, too_soon))

\* ---------------------------------------------------------- ContentAgent
\* _handle_task_assignment: 'if content:' then send CONTENT_GENERATED
SendContent(s0, announcement, content, too_soon) ==
  Strict(s0, LAMBDA st :
  LET m == AgentMessage("content_generated", "ContentAgent", "MotherAgent",
             [announcement |-> announcement, generated_content |-> content]) IN
    IF content # NoContent /\ m.receiver \in agents
      THEN MotherHandleContentGenerated(Delivered(st, m), m, too_soon)
      ELSE st)

\* _handle_task_assignment: generate_content without an LLM falls back at
\* once; with an LLM the calls run in a worker thread and the task waits
ContentHandleTaskAssignment(s0, m, too_soon) ==
  Strict(s0, LAMBDA st :
  LET announcement == m.payload.announcement IN
    IF announcement = None
      THEN st
      ELSE IF llm # "none"
        THEN [st EXCEPT !.loc.ann = announcement, !.at = "llm_wait"]
        ELSE SendContent(st, announcement, GenerateContent(llm, announcement), too_soon))

\* ------------------------------------------- MotherAgent, the assignment
\* _handle_task_assignment
MotherHandleTaskAssignmentMutant(s0, m, too_soon) ==
  Strict(s0, LAMBDA st :
  LET announcement == m.payload.announcement IN
    IF announcement = None
      THEN st
      ELSE
        LET task_id == announcement
            s1 == [st EXCEPT
                     !.clock = @ + 1,
                     !.active_tasks = DictSet(@, NewTask(task_id, st.clock + 1)),
                     !.results_buffer = Put(@, task_id, EmptyMap),
                     !.loc.ann = announcement]
        IN MotherNextRequest(s1, 1, too_soon))

MotherHandleTaskAssignment(s0, m, too_soon) ==
  Strict(s0, LAMBDA st :
  LET announcement == m.payload.announcement IN
    IF announcement = None
      THEN st
      ELSE
        LET task_id == announcement
            s1 == [st EXCEPT
                     !.clock = @ + 1,
                     !.active_tasks = DictSet(@, NewTask(task_id, st.clock + 1)),
                     !.results_buffer = Put(@, task_id, EmptyMap)]
            m2 == AgentMessage("task_assignment", "MotherAgent", "ContentAgent",
                    [announcement |-> announcement, task_id |-> task_id])
        IN IF m2.receiver \in agents
             THEN ContentHandleTaskAssignment(Delivered(s1, m2), m2, too_soon)
             ELSE s1)

\* -------------------------------------------- FatherAgent, the forwarding
\* _handle_new_announcement after its send returned
FatherForwardedMutant(s0) ==
  Strict(s0, LAMBDA st : [st EXCEPT !.processing_stats.forwarded = @ + 1])

FatherForwarded(s0) ==
  Strict(s0, LAMBDA st :
  IF st.at = "returned" /\ st.loc.forwarding
    THEN [st EXCEPT !.processing_stats.forwarded = @ + 1]
    ELSE st)

\* _handle_new_announcement
FatherHandleNewAnnouncement(s0, m, too_soon) ==
  Strict(s0, LAMBDA st :
  LET announcement == m.payload.announcement IN
    IF announcement = None
      THEN st
      ELSE
        LET s1 == [st EXCEPT
                     !.processing_stats.received = @ + 1,
                     !.pending_announcements = @ \cup {announcement},
                     !.loc.ann = announcement,
                     !.loc.forwarding = TRUE]
            m2 == AgentMessage("task_assignment", "FatherAgent", "MotherAgent",
                    [announcement |-> announcement,
                     priority |-> CalculatePriority(AnnouncementTitle(announcement)),
                     timestamp |-> st.clock])
        IN FatherForwarded(
             IF m2.receiver \in agents
               THEN MotherHandleTaskAssignment(Delivered(s1, m2), m2, too_soon)
               ELSE s1))

\* BaseAgent.receive_message of FatherAgent: the handlers it registered in
\* _setup_handlers, else handle_message, which logs
FatherReceiveMessage(s0, m, too_soon) ==
  CASE m.msg_type = "new_announcement" -> FatherHandleNewAnnouncement(s0, m, too_soon)
    [] m.msg_type = "status_update" -> FatherHandleStatusUpdate(s0, m)
    [] OTHER -> s0

\* BaseAgent.receive_message of MotherAgent: the three handlers of its
\* _setup_handlers, else handle_message, which logs
MotherReceiveMessage(s0, m, too_soon) ==
  CASE m.msg_type = "task_assignment" -> MotherHandleTaskAssignment(s0, m, too_soon)
    [] m.msg_type = "content_generated" -> MotherHandleContentGenerated(s0, m, too_soon)
    [] m.msg_type = "post_result" -> MotherHandlePostResult(s0, m)
    [] OTHER -> s0

\* MessageBus._process_message: agent.receive_message(message) of the
\* receiver; ContentAgent and the endpoints have one handler each
Receive(s0, m, too_soon) ==
  CASE m.receiver = "FatherAgent" -> FatherReceiveMessage(s0, m, too_soon)
    [] m.receiver = "MotherAgent" -> MotherReceiveMessage(s0, m, too_soon)
    [] m.receiver = "ContentAgent" /\ m.msg_type = "task_assignment" ->
         ContentHandleTaskAssignment(s0, m, too_soon)
    [] m.receiver \in {platform_agents[i] : i \in 1..Len(platform_agents)}
         /\ m.msg_type = "post_request" ->
         PlatformHandlePostRequest(s0, m, too_soon)
    [] OTHER -> s0

\* ------------------------------------------------------ end of an action
\* history of the run: TASK_ASSIGNMENTs forwarded and STATUS_UPDATEs
\* delivered per id, and the started_at of the records finalized
Observe(log) ==
  LET Sent(t, r, f, i) ==
        Cardinality({k \in 1..Len(log) :
                       /\ log[k].msg_type = t
                       /\ log[k].receiver = r
                       /\ log[k].payload[f] = i})
      finals == {log[k].payload.announcement_id :
                   k \in {j \in 1..Len(log) : log[j].msg_type = "status_update"}}
      stamps == {active_tasks[TaskIndex(active_tasks, t)].started_at :
                   t \in finals \cap TaskIds(active_tasks)}
  IN [fwd |-> [i \in Ids |->
                 hist.fwd[i] + Sent("task_assignment", "MotherAgent", "announcement", i)],
      su |-> [i \in Ids |->
                hist.su[i] + Sent("status_update", "FatherAgent", "announcement_id", i)],
      finalized |-> hist.finalized \cup stamps,
      refinal |-> hist.refinal \/ (stamps \cap hist.finalized # {})]

\* the task of chain c has run up to its next suspension with outcome o.
\* When the delivery has returned, check_and_notify goes on with
\* mark_processed and asyncio.sleep(1), and the consume loop with its next
\* queue get.  An exception that left the handlers ends check_and_notify
\* (run_continuous logs it), and start() logs it and takes the next envelope.
\* A task that was cancelled is over.
Commit(c, o0) ==
  \E o \in {o0} :
    /\ active_tasks' = o.active_tasks
    /\ results_buffer' = o.results_buffer
    /\ clock' = o.clock
    /\ pending_announcements' = o.pending_announcements
    /\ processing_stats' = o.processing_stats
    /\ twitter_last_post' = o.twitter_last_post
    /\ delivered' = o.delivered
    /\ hist' = Observe(o.delivered)
    /\ loc' = [loc EXCEPT ![c] =
                 IF o.at \in {"returned", "raised", "cancelled"} THEN NoLoc ELSE o.loc]
    /\ IF o.at = "returned" /\ c = "main"
         THEN /\ processed_ids' = processed_ids \cup {Head(todo)}
              /\ todo' = Tail(todo)
              /\ pc' = [pc EXCEPT ![c] = IF Tail(todo) = <<>> THEN "idle" ELSE "notify"]
         ELSE /\ processed_ids' = processed_ids
              /\ todo' = IF o.at \in {"raised", "cancelled"} /\ c = "main"
                           THEN <<>> ELSE todo
              /\ pc' = [pc EXCEPT ![c] =
                          IF o.at \in {"returned", "raised"} THEN "idle" ELSE o.at]

\* whether TwitterAgent's last post is less than _min_interval old
TooSoon == IF twitter_last_post THEN BOOLEAN ELSE {FALSE}

\* ------------------------------------------------------ InformationAgent
\* scan_for_announcements: the award articles whose id is_processed says
\* no to; two articles may carry the same id
ScanForAnnouncements ==
  /\ pc["main"] = "idle"
  /\ announced < MaxAnn
  /\ \E n \in 1..(MaxAnn - announced) :
       \E s \in [1..n -> Ids \ processed_ids] :
         /\ InOrderOfAppearance(s, known)
         /\ todo' = s
         /\ announced' = announced + n
         /\ known' = MaxOf({known} \cup {s[i] : i \in 1..n})
  /\ pc' = [pc EXCEPT !["main"] = "notify"]
  /\ delivered' = <<>>
  /\ UNCHANGED <<agents, message_queue, llm, working, failure, twitter_last_post,
                 active_tasks, results_buffer, clock, pending_announcements,
                 processing_stats, processed_ids, loc, hist>>
  /\ UNCHANGED <<calls, library>>

\* check_and_notify: send NEW_ANNOUNCEMENT for the next announcement and
\* run the pipeline up to its first suspension
CheckAndNotify ==
  /\ pc["main"] = "notify"
  /\ \E too_soon \in TooSoon :
       LET m == AgentMessage("new_announcement", "InformationAgent", "FatherAgent",
                             [announcement |-> Head(todo)])
           o == IF m.receiver \in agents
                  THEN FatherHandleNewAnnouncement(Delivered(Running(NoLoc), m), m, too_soon)
                  ELSE Running(NoLoc)
       IN Commit("main", o)
  /\ UNCHANGED <<agents, message_queue, announced, known, llm, working, failure>>
  /\ UNCHANGED <<calls, library>>

\* ------------------------------------------------------------ MessageBus
\* publish: some task enqueues a NEW_ANNOUNCEMENT envelope for FatherAgent
Publish ==
  /\ announced < MaxAnn
  /\ \E i \in 1..(known + 1) :
       /\ message_queue' = Append(message_queue,
            AgentMessage("new_announcement", "InformationAgent", "FatherAgent",
                         [announcement |-> i]))
       /\ known' = MaxOf({known, i})
  /\ announced' = announced + 1
  /\ delivered' = <<>>
  /\ UNCHANGED <<agents, llm, working, failure, twitter_last_post, active_tasks,
                 results_buffer, clock, pending_announcements, processing_stats,
                 processed_ids, todo, pc, loc, hist>>
  /\ UNCHANGED <<calls, library>>

\* start / _process_message: dequeue one envelope and deliver it
ProcessMessage ==
  /\ pc["bus"] = "idle"
  /\ message_queue # <<>>
  /\ message_queue' = Tail(message_queue)
  /\ \E too_soon \in TooSoon :
       LET m == Head(message_queue)
           o == IF m.receiver \in agents
                  THEN Receive(Delivered(Running(NoLoc), m), m, too_soon)
                  ELSE Running(NoLoc)
       IN Commit("bus", o)
  /\ UNCHANGED <<agents, announced, known, llm, working, failure>>
  /\ UNCHANGED <<calls, library>>

\* ------------------------------------------------------- the resumptions
\* ContentAgent: generate_content returned, CONTENT_GENERATED is sent
ContentGenerated(c) ==
  /\ pc[c] = "llm_wait"
  /\ \E too_soon \in TooSoon :
       Commit(c, FatherForwarded(
                   SendContent(Running(loc[c]), loc[c].ann,
                               GenerateContent(llm, loc[c].ann), too_soon)))
  /\ UNCHANGED <<agents, message_queue, announced, known, llm, working, failure>>
  /\ UNCHANGED <<calls, library>>

\* TwitterAgent.post after its rate-limit sleep
TwitterAfterWait(c) ==
  /\ pc[c] = "twitter_wait"
  /\ Commit(c, PostAndReport([Running(loc[c]) EXCEPT !.at = "mother_wake"],
                             "TwitterAgent"))
  /\ UNCHANGED <<agents, message_queue, announced, known, llm, working, failure>>
  /\ UNCHANGED <<calls, library>>

\* MotherAgent._handle_content_generated after asyncio.sleep(1): the next
\* round of the loop, or the end of the loop and of the whole delivery
MotherNextPlatform(c) ==
  /\ pc[c] = "mother_wake"
  /\ Commit(c, IF loc[c].idx < Len(platform_agents)
                 THEN MotherNextRequest(Running(loc[c]), loc[c].idx + 1, FALSE)
                 ELSE FatherForwarded(Running(loc[c])))
  /\ UNCHANGED <<agents, message_queue, announced, known, llm, working, failure>>
  /\ UNCHANGED <<calls, library>>

\* an exception reaches 'await self.send_message(...)' from the handler
\* that was awaited: send_direct and receive_message have no try, and no
\* handler of the nine agents has one around its send, so it leaves every
\* frame of the task
UnwindMutant(s0) ==
  [s0 EXCEPT !.at = IF s0.loc.idx > 0 THEN "mother_wake" ELSE "returned"]

Unwind(s0) == [s0 EXCEPT !.at = "cancelled"]

\* AgentOrchestrator.stop: task.cancel() raises asyncio.CancelledError at
\* the await at which the task is suspended (the LLM call of ContentAgent,
\* the rate-limit sleep of TwitterAgent.post, the sleep of MotherAgent's
\* fan-out); 'except Exception' does not catch it
Cancel(c) ==
  /\ pc[c] \in {"llm_wait", "twitter_wait", "mother_wake"}
  /\ Commit(c, Unwind(Running(loc[c])))
  /\ UNCHANGED <<agents, message_queue, announced, known, llm, working, failure>>
  /\ UNCHANGED <<calls, library>>

\* ------------------------------------------------------------------ Next
Step(c) ==
  \/ ContentGenerated(c)
  \/ TwitterAfterWait(c)
  \/ MotherNextPlatform(c)

Next ==
  \/ ScanForAnnouncements
  \/ CheckAndNotify
  \/ Publish
  \/ ProcessMessage
  \/ \E c \in Chains : Step(c)

Spec == Init /\ [][Next]_vars

\* ----------------------------------------------- the main task on its own
\* a run in which nothing is handed to publish(): check_and_notify sends
\* one announcement after the other, with every mix of endpoint outcomes
NextSolo ==
  \/ ScanForAnnouncements
  \/ CheckAndNotify
  \/ Step("main")

SpecSolo == InitAny /\ [][NextSolo]_vars

\* the event loop runs every task that is ready: a sleep and an LLM call
\* (bounded by its timeout) end.  Enrichment does not depend on what the
\* endpoints answer.
InitFair == InitAny /\ working = PlatformKeys /\ failure = "credentials"

FairSolo ==
  /\ InitFair
  /\ [][NextSolo]_vars
  /\ WF_vars(CheckAndNotify)
  /\ WF_vars(Step("main"))

\* ------------------------------------------- FatherAgent and the queue
\* the envelopes a task may publish for FatherAgent when k ids have
\* appeared: NEW_ANNOUNCEMENT with or without an announcement, and
\* STATUS_UPDATE with any status
FatherEnvelopes(k) ==
  {AgentMessage("new_announcement", "InformationAgent", "FatherAgent",
                [announcement |-> a]) : a \in {None} \cup (1..(k + 1))}
    \cup
  {AgentMessage("status_update", "MotherAgent", "FatherAgent",
                [status |-> status, announcement_id |-> i, results |-> EmptyMap]) :
     status \in {"completed", "failed", "posting"}, i \in 1..(k + 1)}

\* the id an envelope for FatherAgent carries
CarriedId(m) ==
  IF m.msg_type = "status_update"
    THEN m.payload.announcement_id
    ELSE m.payload.announcement

\* MessageBus.publish with an envelope for FatherAgent
PublishToFather ==
  /\ announced < MaxAnn
  /\ \E m \in FatherEnvelopes(known) :
       /\ message_queue' = Append(message_queue, m)
       /\ known' = MaxOf({known, CarriedId(m)})
  /\ announced' = announced + 1
  /\ delivered' = <<>>
  /\ UNCHANGED <<agents, llm, working, failure, twitter_last_post, active_tasks,
                 results_buffer, clock, pending_announcements, processing_stats,
                 processed_ids, todo, pc, loc, hist>>
  /\ UNCHANGED <<calls, library>>

\* the consume loop delivers what was published, one envelope after the
\* other; the endpoints all work or all fail
InitFather ==
  /\ InitAny
  /\ working \in {PlatformKeys, {}}
  /\ failure = "credentials"
  /\ llm \in {"none", "answers"}

NextFather ==
  \/ PublishToFather
  \/ ProcessMessage
  \/ Step("bus")

SpecFather == InitFather /\ [][NextFather]_vars

\* the consume loop delivers the published announcements and its task may
\* be cancelled at any await
NextCancel ==
  \/ Publish
  \/ ProcessMessage
  \/ Step("bus")
  \/ Cancel("bus")

SpecCancel == InitFather /\ [][NextCancel]_vars

\* --------------------------------------------- an endpoint is missing
\* one of the platform agents was not constructed, so it is not in
\* MessageBus.agents; the others all work or all lack their credentials
InitUnregistered ==
  /\ AtStart
  /\ \E i \in 1..Len(platform_agents) : agents = AllAgents \ {platform_agents[i]}
  /\ working \in {PlatformKeys, {}}
  /\ failure = "credentials"
  /\ llm \in {"none", "answers"}

SpecUnregistered == InitUnregistered /\ [][Next]_vars

\* ------------------------------------------- MotherAgent and the queue
\* the envelopes a task may publish for MotherAgent when k ids have
\* appeared: TASK_ASSIGNMENT and CONTENT_GENERATED with or without an
\* announcement, the latter with or without content, and POST_RESULT with
\* or without platform and result
MotherEnvelopes(k) ==
  {AgentMessage("task_assignment", "FatherAgent", "MotherAgent",
                [announcement |-> a, priority |-> BasePriority, timestamp |-> 0]) :
     a \in {None} \cup (1..(k + 1))}
    \cup
  {AgentMessage("content_generated", "ContentAgent", "MotherAgent",
                [announcement |-> a, generated_content |-> content]) :
     a \in {None} \cup (1..(k + 1)), content \in {NoContent, FallbackGenerate(1)}}
    \cup
  {AgentMessage("post_result", "RedditAgent", "MotherAgent",
                PostResultPayload(platform, result)) :
     platform \in {NoPlatform, "reddit"},
     result \in {NoResult, PostResult(TRUE, "reddit", "none")}}

\* MessageBus.publish with an envelope for MotherAgent
PublishToMother ==
  /\ announced < MaxAnn
  /\ \E m \in MotherEnvelopes(known) :
       /\ message_queue' = Append(message_queue, m)
       /\ known' = IF "announcement" \in DOMAIN m.payload
                     THEN MaxOf({known, m.payload.announcement})
                     ELSE known
  /\ announced' = announced + 1
  /\ delivered' = <<>>
  /\ UNCHANGED <<agents, llm, working, failure, twitter_last_post, active_tasks,
                 results_buffer, clock, pending_announcements, processing_stats,
                 processed_ids, todo, pc, loc, hist>>
  /\ UNCHANGED <<calls, library>>

\* check_and_notify sends its announcements while the consume loop
\* delivers what was published for MotherAgent; the endpoints all work or
\* all lack their credentials
InitMother ==
  /\ InitAny
  /\ working \in {PlatformKeys, {}}
  /\ failure = "credentials"
  /\ llm \in {"none", "answers"}

NextMother ==
  \/ ScanForAnnouncements
  \/ CheckAndNotify
  \/ PublishToMother
  \/ ProcessMessage
  \/ \E c \in Chains : Step(c)

SpecMother == InitMother /\ [][NextMother]_vars

\* ------------------------------------------ POST_RESULTs from the queue
\* MessageBus.publish with a POST_RESULT of the first or the last endpoint,
\* one at a time
PublishResult ==
  /\ message_queue = <<>>
  /\ \E agent \in {"TwitterAgent", "RedditAgent"} : \E success \in BOOLEAN :
       message_queue' =
         <<AgentMessage("post_result", agent, "MotherAgent",
             PostResultPayload(PlatformKey(agent),
               PostResult(success, PlatformKey(agent),
                          IF success THEN "none" ELSE "http_error")))>>
  /\ delivered' = <<>>
  /\ UNCHANGED <<agents, announced, known, llm, working, failure, twitter_last_post,
                 active_tasks, results_buffer, clock, pending_announcements,
                 processing_stats, processed_ids, todo, pc, loc, hist>>
  /\ UNCHANGED <<calls, library>>

\* check_and_notify sends its announcements while the consume loop
\* delivers the published POST_RESULTs
InitResults ==
  /\ InitAny
  /\ working \in {PlatformKeys, {}}
  /\ failure = "credentials"
  /\ llm \in {"none", "answers"}

NextResults ==
  \/ ScanForAnnouncements
  \/ CheckAndNotify
  \/ PublishResult
  \/ ProcessMessage
  \/ Step("main")

SpecResults == InitResults /\ [][NextResults]_vars

\* ------------------------------------- _calculate_priority on its own
InitPriority ==
  /\ InitAny
  /\ working = PlatformKeys
  /\ failure = "credentials"
  /\ llm = "none"

\* the keywords of the set that occur in the title t
Matched(t) ==
  Cardinality({i \in 1..Len(high_priority_keywords) :
                 Contains(t, high_priority_keywords[i])})

\* FatherAgent._calculate_priority(announcement) returns
CalculatePriorityCall ==
  /\ priority = None
  /\ priority' = CalculatePriority(title)
  /\ UNCHANGED <<title, earlier>>
  /\ UNCHANGED <<pipeline, library>>

\* the next announcement has another title
AnotherTitle ==
  /\ priority # None
  /\ earlier' = [matched |-> Matched(title), priority |-> priority]
  /\ title' \in Titles
  /\ priority' = None
  /\ UNCHANGED <<pipeline, library>>

NextPriority ==
  \/ CalculatePriorityCall
  \/ AnotherTitle

SpecPriority == InitPriority /\ [][NextPriority]_vars

\* --------------------------------- MessageBus and BaseAgent on their own
\* The bus with two agents of any kind.  A handler is any code: it returns,
\* raises, awaits something, or sends an envelope with send_message.  The
\* task of MessageBus.start keeps the frames of the handlers it is in; the
\* other tasks (the callers of publish, subscribe, stop, ...) run while it
\* is suspended at an await.
Top(stack) == stack[Len(stack)]

Pop(stack) == SubSeq(stack, 1, Len(stack) - 1)

\* the nine agents are not at work
NotAtWork ==
  /\ announced = 0
  /\ known = 0
  /\ llm = "none"
  /\ working = PlatformKeys
  /\ failure = "credentials"
  /\ twitter_last_post = FALSE
  /\ active_tasks = <<>>
  /\ results_buffer = EmptyMap
  /\ clock = 0
  /\ pending_announcements = {}
  /\ processing_stats = [received |-> 0, forwarded |-> 0, completed |-> 0, failed |-> 0]
  /\ processed_ids = {}
  /\ todo = <<>>
  /\ pc = [c \in Chains |-> "idle"]
  /\ loc = [c \in Chains |-> NoLoc]
  /\ delivered = <<>>
  /\ hist = [fwd |-> [i \in Ids |-> 0], su |-> [i \in Ids |-> 0],
             finalized |-> {}, refinal |-> FALSE]
  /\ title = <<>>
  /\ priority = None
  /\ earlier = NoCall

\* MessageBus.__init__ and the __init__ of the agents that exist, and
\* AgentOrchestrator.start has created the task
Constructed ==
  /\ instance = Singleton
  /\ message_queue = <<>>
  /\ registered = [a \in AgentNames |-> IF a \in agents THEN 1 ELSE NoAgent]
  /\ subscribers = [a \in AgentNames |-> <<>>]
  /\ running = FALSE
  /\ message_handlers = [a \in AgentNames |-> EmptyMap]
  /\ consumer = NotStarted
  /\ bus_hist = [NoHistory EXCEPT !.constructed = registered, !.instances = 1]

\* no agent has been constructed yet
InitBus ==
  /\ agents = {}
  /\ NotAtWork
  /\ Constructed

\* the task of MessageBus.start is suspended at an await (or has not run
\* yet, or is over): other tasks can run
Suspended ==
  \/ consumer.pc \in {"created", "get", "ended", "cancelled"}
  \/ consumer.stack # <<>> /\ Top(consumer.stack).at = "await"

\* the handler at the top of the stack is running
InHandler == consumer.stack # <<>> /\ Top(consumer.stack).at = "run"

\* BaseAgent.register_handler: self._message_handlers[msg_type] = handler
SetHandlerMutant(handlers, t, h) ==
  IF t \in DOMAIN handlers THEN handlers ELSE Put(handlers, t, h)

SetHandler(handlers, t, h) == Put(handlers, t, h)

\* BaseAgent.receive_message: the handler registered for the type, else
\* handle_message; its frame begins
ReceiveMessage(m) ==
  [agent |-> m.receiver, object |-> registered[m.receiver], message |-> m.payload,
   handler |-> IF m.msg_type \in DOMAIN message_handlers[m.receiver]
                 THEN message_handlers[m.receiver][m.msg_type]
                 ELSE handle_message,
   at |-> "run", awaited |-> FALSE]

\* 'await agent.receive_message(message)': the frame of the receiver is on
\* top of the frame that sent the envelope
CallMutant(stack, frame) == <<frame>> \o stack

Call(stack, frame) == Append(stack, frame)

\* the frame on top goes on when the send_message it awaited has returned
Awake(stack) ==
  IF stack # <<>> /\ Top(stack).at = "sent"
    THEN [stack EXCEPT ![Len(stack)].at = "run"]
    ELSE stack

\* MessageBus.send_direct, the else branch: a warning is logged
UnknownReceiverMutant(queue, m) == Append(queue, m)

UnknownReceiver(queue, m) == queue

\* asyncio.Queue.get
DequeueMutant(queue) ==
  [message |-> queue[Len(queue)], rest |-> SubSeq(queue, 1, Len(queue) - 1)]

Dequeue(queue) == [message |-> Head(queue), rest |-> Tail(queue)]

\* MessageBus.start: 'except asyncio.TimeoutError: continue'
OnTimeoutMutant == "ended"

OnTimeout == "test"

\* MessageBus.start: 'except Exception as e:' logs the error, and the loop
\* goes on with the test of its flag
OnExceptionMutant == "ended"

OnException == "test"

\* MessageBus._process_message after the receiver: the loop over the
\* callbacks subscribed to the receiver's name
ToCallbacksMutant(c, m) ==
  IF subscribers[m.receiver] = <<>> \/ m.receiver \notin agents
    THEN [c EXCEPT !.pc = "test", !.message = NoMessage, !.cb = 0, !.stack = <<>>]
    ELSE [c EXCEPT !.pc = "callbacks", !.cb = 1, !.stack = <<>>]

ToCallbacks(c, m) ==
  IF subscribers[m.receiver] = <<>>
    THEN [c EXCEPT !.pc = "test", !.message = NoMessage, !.cb = 0, !.stack = <<>>]
    ELSE [c EXCEPT !.pc = "callbacks", !.cb = 1, !.stack = <<>>]

\* MessageBus.__new__: the instance is created when _instance is None,
\* with _initialized = False; n instances have been created so far
New(inst, n) ==
  IF inst = NoInstance THEN [id |-> n + 1, initialized |-> FALSE] ELSE inst

\* the attributes that MessageBus.__init__ assigns
Attributes ==
  [instance |-> instance, subscribers |-> subscribers,
   message_queue |-> message_queue, agents |-> agents,
   registered |-> registered, running |-> running]

\* MessageBus.__init__ on the instance that __new__ returned: nothing when
\* it is _initialized, else empty subscribers, queue and registry
BusInitMutant(inst, bus) ==
  [bus EXCEPT !.instance = [inst EXCEPT !.initialized = TRUE],
              !.subscribers = [a \in AgentNames |-> <<>>],
              !.message_queue = <<>>,
              !.agents = {},
              !.registered = [a \in AgentNames |-> NoAgent],
              !.running = FALSE]

BusInit(inst, bus) ==
  IF inst.initialized
    THEN [bus EXCEPT !.instance = inst]
    ELSE [bus EXCEPT !.instance = [inst EXCEPT !.initialized = TRUE],
                     !.subscribers = [a \in AgentNames |-> <<>>],
                     !.message_queue = <<>>,
                     !.agents = {},
                     !.registered = [a \in AgentNames |-> NoAgent],
                     !.running = FALSE]

\* what the MessageBus() call of the last orchestrator found: how many
\* agents, callbacks and queued envelopes
Found ==
  [agents |-> Cardinality(agents), callbacks |-> bus_hist.subscribed,
   queued |-> Len(message_queue)]

\* MessageBus(): __new__, then __init__ on what it returned
MessageBus == BusInit(New(instance, bus_hist.instances), Attributes)

\* MessageBus.register_agent: self.agents[agent.name] = agent
SetAgentMutant(registry, name, object) ==
  IF registry[name] # NoAgent THEN registry ELSE [registry EXCEPT ![name] = object]

SetAgent(registry, name, object) == [registry EXCEPT ![name] = object]

\* BaseAgent.__init__ of one more object with the name a:
\* self.message_bus.register_agent(self), self._message_handlers = {}.
\* message_handlers keeps the table of the object that is registered
RegisterAgent(a) ==
  /\ Suspended
  /\ bus_hist.constructed[a] < MaxObjects
  /\ LET bus == MessageBus IN
       /\ instance' = bus.instance
       /\ agents' = bus.agents \cup {a}
       /\ registered' = SetAgent(bus.registered, a, bus_hist.constructed[a] + 1)
       /\ message_queue' = bus.message_queue
       /\ subscribers' = bus.subscribers
       /\ running' = bus.running
       /\ bus_hist' = [bus_hist EXCEPT !.constructed[a] = @ + 1,
                                       !.instances = bus.instance.id]
  /\ message_handlers' = [message_handlers EXCEPT ![a] = EmptyMap]
  /\ UNCHANGED <<at_work, calls, consumer>>

\* AgentOrchestrator.__init__: self.message_bus = MessageBus()
NewOrchestrator ==
  /\ Suspended
  /\ bus_hist.orchestrators < MaxObjects
  /\ LET bus == MessageBus IN
       /\ instance' = bus.instance
       /\ agents' = bus.agents
       /\ registered' = bus.registered
       /\ message_queue' = bus.message_queue
       /\ subscribers' = bus.subscribers
       /\ running' = bus.running
       /\ bus_hist' = [bus_hist EXCEPT !.orchestrators = @ + 1,
                                       !.instances = bus.instance.id,
                                       !.found = Found]
  /\ UNCHANGED <<at_work, calls, message_handlers, consumer>>

\* MessageBus.subscribe
Subscribe(name, raises) ==
  /\ Suspended
  /\ bus_hist.subscribed < MaxSubs
  /\ subscribers' = [subscribers EXCEPT ![name] =
       Append(@, [id |-> bus_hist.subscribed + 1, raises |-> raises])]
  /\ bus_hist' = [bus_hist EXCEPT !.subscribed = @ + 1]
  /\ UNCHANGED <<pipeline, calls, registered, instance, running, message_handlers, consumer>>

\* BaseAgent.register_handler
RegisterHandler(a, t) ==
  /\ Suspended
  /\ a \in agents
  /\ Len(bus_hist.registrations) < MaxRegs
  /\ message_handlers' = [message_handlers EXCEPT ![a] =
       SetHandler(@, t, Len(bus_hist.registrations) + 1)]
  /\ bus_hist' = [bus_hist EXCEPT !.registrations =
       Append(@, [agent |-> a, msg_type |-> t])]
  /\ UNCHANGED <<pipeline, calls, registered, instance, subscribers, running, consumer>>

\* self.message_queue = asyncio.Queue(): maxsize is 0
maxsize == 0

\* asyncio.Queue.full: a queue without maxsize is never full, and put()
\* waits only while the queue is full
FullMutant(queue) == Len(queue) >= 1

Full(queue) == maxsize > 0 /\ Len(queue) >= maxsize

\* MessageBus.publish: 'await self.message_queue.put(message)'
PublishEnvelope(t, r) ==
  /\ Suspended
  /\ Len(bus_hist.created) < MaxMsgs
  /\ ~Full(message_queue)
  /\ LET m == AgentMessage(t, "agent_a", r, Len(bus_hist.created) + 1) IN
       /\ message_queue' = Append(message_queue, m)
       /\ bus_hist' = [bus_hist EXCEPT !.created =
            Append(@, [message |-> m, parent |-> None, via |-> "publish"])]
  /\ UNCHANGED <<agents, at_work, calls, registered, instance, subscribers, running,
                 message_handlers, consumer>>

\* MessageBus.start begins: self._running = True, the first test of the
\* flag, and the first wait for the queue
StartLoop ==
  /\ consumer.pc = "created"
  /\ running' = TRUE
  /\ consumer' = [consumer EXCEPT !.pc = "get"]
  /\ UNCHANGED <<pipeline, calls, registered, instance, subscribers, message_handlers, bus_hist>>

\* 'while self._running:' and the wait for the queue
LoopTest ==
  /\ consumer.pc = "test"
  /\ consumer' = [consumer EXCEPT !.pc = IF running THEN "get" ELSE "ended"]
  /\ UNCHANGED <<pipeline, calls, registered, instance, subscribers, running, message_handlers, bus_hist>>

\* asyncio.wait_for(self.message_queue.get(), timeout=1.0) is over: with
\* an envelope, which goes to its receiver (_process_message), or with
\* asyncio.TimeoutError
QueueGet ==
  /\ consumer.pc = "get"
  /\ IF message_queue = <<>>
       THEN /\ consumer' = [consumer EXCEPT !.pc = OnTimeout]
            /\ UNCHANGED <<message_queue, bus_hist>>
       ELSE LET m == Dequeue(message_queue).message IN
              /\ message_queue' = Dequeue(message_queue).rest
              /\ IF m.receiver \in agents
                   THEN /\ consumer' = [consumer EXCEPT
                             !.pc = "handling", !.message = m,
                             !.stack = <<ReceiveMessage(m)>>]
                        /\ bus_hist' = [bus_hist EXCEPT
                             !.dequeued = Append(@, m.payload),
                             !.started = @ \cup {m.payload},
                             !.invoked = <<>>]
                   ELSE /\ consumer' = ToCallbacks([consumer EXCEPT !.message = m], m)
                        /\ bus_hist' = [bus_hist EXCEPT
                             !.dequeued = Append(@, m.payload),
                             !.invoked = <<>>]
  /\ UNCHANGED <<agents, at_work, calls, registered, instance, subscribers, running, message_handlers>>

\* the handler on top returns; when it is the receiver of the queued
\* envelope, _process_message goes on with the callbacks
HandlerReturns ==
  /\ InHandler
  /\ bus_hist' = [bus_hist EXCEPT !.finished = @ \cup {Top(consumer.stack).message}]
  /\ consumer' =
       IF Len(consumer.stack) = 1
         THEN ToCallbacks(consumer, consumer.message)
         ELSE [consumer EXCEPT !.stack = Awake(Pop(consumer.stack))]
  /\ UNCHANGED <<pipeline, calls, registered, instance, subscribers, running, message_handlers>>

\* the handler on top raises an Exception: no frame below catches it, it
\* leaves _process_message and start() logs it
HandlerRaises ==
  /\ InHandler
  /\ bus_hist' = [bus_hist EXCEPT !.raised =
       @ \cup {consumer.stack[i].message : i \in 1..Len(consumer.stack)}]
  /\ consumer' = [consumer EXCEPT !.pc = OnException, !.message = NoMessage,
                                  !.cb = 0, !.stack = <<>>]
  /\ UNCHANGED <<pipeline, calls, registered, instance, subscribers, running, message_handlers>>

\* the handler on top awaits something that suspends the task
HandlerAwaits ==
  /\ InHandler
  /\ ~Top(consumer.stack).awaited
  /\ consumer' = [consumer EXCEPT !.stack[Len(consumer.stack)].at = "await",
                                  !.stack[Len(consumer.stack)].awaited = TRUE]
  /\ UNCHANGED <<pipeline, calls, registered, instance, subscribers, running, message_handlers, bus_hist>>

\* what it awaited is done
Resume ==
  /\ consumer.stack # <<>>
  /\ Top(consumer.stack).at = "await"
  /\ consumer' = [consumer EXCEPT !.stack[Len(consumer.stack)].at = "run"]
  /\ UNCHANGED <<pipeline, calls, registered, instance, subscribers, running, message_handlers, bus_hist>>

\* the handler on top calls send_message: MessageBus.send_direct
HandlerSends(t, r) ==
  /\ InHandler
  /\ Len(bus_hist.created) < MaxMsgs
  /\ LET sender == Top(consumer.stack)
         m == AgentMessage(t, sender.agent, r, Len(bus_hist.created) + 1)
         sent == [message |-> m, parent |-> sender.message, via |-> "send_direct"]
     IN IF r \in agents
          THEN /\ consumer' = [consumer EXCEPT !.stack =
                    Awake(Call([consumer.stack EXCEPT ![Len(consumer.stack)].at = "sent"],
                               ReceiveMessage(m)))]
               /\ bus_hist' = [bus_hist EXCEPT !.created = Append(@, sent),
                                               !.started = @ \cup {m.payload}]
               /\ UNCHANGED message_queue
          ELSE /\ message_queue' = UnknownReceiver(message_queue, m)
               /\ bus_hist' = [bus_hist EXCEPT !.created = Append(@, sent),
                                               !.dropped = @ \cup {m.payload}]
               /\ UNCHANGED consumer
  /\ UNCHANGED <<agents, at_work, calls, registered, instance, subscribers, running, message_handlers>>

\* _process_message: the next callback is awaited; what it raises is
\* caught and logged
InvokeCallback ==
  /\ consumer.pc = "callbacks"
  /\ LET callbacks == subscribers[consumer.message.receiver]
         i == consumer.cb IN
       /\ i <= Len(callbacks)
       /\ bus_hist' = [bus_hist EXCEPT !.invoked = Append(@, callbacks[i].id)]
       /\ consumer' =
            IF i < Len(callbacks)
              THEN [consumer EXCEPT !.cb = i + 1]
              ELSE [consumer EXCEPT !.pc = "test", !.message = NoMessage, !.cb = 0]
  /\ UNCHANGED <<pipeline, calls, registered, instance, subscribers, running, message_handlers>>

\* MessageBus.stop
Stop ==
  /\ Suspended
  /\ running' = FALSE
  /\ bus_hist' = [bus_hist EXCEPT !.stop_called = TRUE]
  /\ UNCHANGED <<pipeline, calls, registered, instance, subscribers, message_handlers, consumer>>

\* AgentOrchestrator.stop: MessageBus.stop, then task.cancel() and the
\* wait for the task; CancelledError is raised at the await at which the
\* task is suspended and no 'except Exception' catches it
OrchestratorStop ==
  /\ Suspended
  /\ consumer.pc \notin {"ended", "cancelled"}
  /\ running' = FALSE
  /\ bus_hist' = [bus_hist EXCEPT !.stop_called = TRUE]
  /\ consumer' = [consumer EXCEPT !.pc = "cancelled", !.stack = <<>>]
  /\ UNCHANGED <<pipeline, calls, registered, instance, subscribers, message_handlers>>

\* the bus, its registry and its loop: envelopes of one type
NextBus ==
  \/ \E a \in AgentNames \ agents : RegisterAgent(a)
  \/ \E r \in AgentNames : PublishEnvelope("new_announcement", r)
  \/ StartLoop
  \/ LoopTest
  \/ QueueGet
  \/ HandlerReturns
  \/ HandlerRaises
  \/ HandlerAwaits
  \/ Resume
  \/ \E r \in AgentNames : HandlerSends("new_announcement", r)
  \/ Stop
  \/ OrchestratorStop

SpecBus == InitBus /\ [][NextBus]_vars

\* the callbacks: agent_a is registered, agent_b is a name without an
\* agent; the handlers do not await
InitSubscribers ==
  /\ agents = {"agent_a"}
  /\ NotAtWork
  /\ Constructed

NextSubscribers ==
  \/ \E name \in AgentNames : \E raises \in BOOLEAN : Subscribe(name, raises)
  \/ \E r \in AgentNames : PublishEnvelope("new_announcement", r)
  \/ StartLoop
  \/ LoopTest
  \/ QueueGet
  \/ HandlerReturns
  \/ HandlerRaises
  \/ InvokeCallback

SpecSubscribers == InitSubscribers /\ [][NextSubscribers]_vars

\* the callbacks and send_message: agent_a is registered and its handler
\* sends envelopes to both names
NextCallbacks ==
  \/ \E name \in AgentNames : \E raises \in BOOLEAN : Subscribe(name, raises)
  \/ \E r \in AgentNames : PublishEnvelope("new_announcement", r)
  \/ StartLoop
  \/ LoopTest
  \/ QueueGet
  \/ HandlerReturns
  \/ \E r \in AgentNames : HandlerSends("new_announcement", r)
  \/ InvokeCallback

SpecCallbacks == InitSubscribers /\ [][NextCallbacks]_vars

\* both agents have been constructed
InitRegistered ==
  /\ agents = AgentNames
  /\ NotAtWork
  /\ Constructed

\* the dispatch of receive_message: both agents are registered, envelopes
\* of two types arrive from the queue (for agent_a) and from send_message
\* (for agent_b); the handlers do not await
NextHandlers ==
  \/ \E a \in AgentNames : \E t \in MessageTypes : RegisterHandler(a, t)
  \/ \E t \in MessageTypes : PublishEnvelope(t, "agent_a")
  \/ StartLoop
  \/ LoopTest
  \/ QueueGet
  \/ HandlerReturns
  \/ \E t \in MessageTypes : HandlerSends(t, "agent_b")

SpecHandlers == InitRegistered /\ [][NextHandlers]_vars

\* the loop and MessageBus.stop: both agents are registered
NextLoop ==
  \/ \E r \in AgentNames : PublishEnvelope("new_announcement", r)
  \/ StartLoop
  \/ LoopTest
  \/ QueueGet
  \/ HandlerReturns
  \/ HandlerRaises
  \/ HandlerAwaits
  \/ Resume
  \/ Stop

\* what the task of MessageBus.start does when the event loop runs it
ConsumerStep ==
  \/ StartLoop
  \/ LoopTest
  \/ QueueGet
  \/ HandlerReturns
  \/ Resume

\* the event loop runs the task whenever it is ready: the wait for the
\* queue ends after a second at the latest, and what a handler awaits ends
FairLoop ==
  /\ InitRegistered
  /\ [][NextLoop]_vars
  /\ WF_vars(ConsumerStep)

\* the registry: objects are constructed at any time, also with a name that
\* is taken, while envelopes arrive from the queue and from send_message
NextRegistry ==
  \/ \E a \in AgentNames : RegisterAgent(a)
  \/ \E r \in AgentNames : PublishEnvelope("new_announcement", r)
  \/ StartLoop
  \/ LoopTest
  \/ QueueGet
  \/ HandlerReturns
  \/ HandlerAwaits
  \/ Resume
  \/ \E r \in AgentNames : HandlerSends("new_announcement", r)

SpecRegistry == InitBus /\ [][NextRegistry]_vars

\* base_agent has been imported and nothing constructed: _instance is None
InitSingleton ==
  /\ agents = {}
  /\ NotAtWork
  /\ instance = NoInstance
  /\ registered = [a \in AgentNames |-> NoAgent]
  /\ message_queue = <<>>
  /\ subscribers = [a \in AgentNames |-> <<>>]
  /\ running = FALSE
  /\ message_handlers = [a \in AgentNames |-> EmptyMap]
  /\ consumer = NotStarted
  /\ bus_hist = NoHistory

\* the constructions of MessageBus: by the agents and the orchestrators,
\* at any time after the first, between subscriptions and envelopes that
\* wait in the queue of a loop that has started
NextSingleton ==
  \/ \E a \in AgentNames : RegisterAgent(a)
  \/ NewOrchestrator
  \/ instance # NoInstance /\ \E name \in AgentNames : Subscribe(name, FALSE)
  \/ instance # NoInstance /\ PublishEnvelope("new_announcement", "agent_a")
  \/ instance # NoInstance /\ StartLoop

SpecSingleton == InitSingleton /\ [][NextSingleton]_vars

\* ------------------------------------------------------------ properties
Count(buffer, t) == IF t \in DOMAIN buffer THEN Cardinality(DOMAIN buffer[t]) ELSE 0

HasStatus(t, st) ==
  \E i \in 1..Len(active_tasks) : active_tasks[i].id = t /\ active_tasks[i].status = st

\* the positions in log of the envelopes of type t
Typed(log, t) == {k \in 1..Len(log) : log[k].msg_type = t}

\* the positions in log of the envelopes of type t delivered to r
Of(log, t, r) == {k \in Typed(log, t) : log[k].receiver = r}

\* no task is in a pipeline, nothing is queued and nothing is left to notify
Quiescent ==
  /\ \A c \in Chains : pc[c] = "idle"
  /\ message_queue = <<>>
  /\ todo = <<>>

\* the task whose POST_REQUEST the POST_RESULT at position k of this step's
\* envelopes answers: the request comes right before it, or it went to
\* TwitterAgent in an earlier step and TwitterAgent slept
RequestedTask(k) ==
  IF k > 1 /\ delivered'[k - 1].msg_type = "post_request"
    THEN delivered'[k - 1].payload.task_id
    ELSE loc[CHOOSE c \in Chains : pc[c] = "twitter_wait" /\ pc'[c] # "twitter_wait"].ann

\* C1: a POST_RESULT answering the POST_REQUEST of task T is recorded under
\* T (and reported with T when it is the last one) and changes the results
\* of no other task, however many tasks are posting
C1_ResultRecordedUnderItsTask ==
  [][\A k \in Typed(delivered', "post_result") :
       LET T == RequestedTask(k)
           platform == delivered'[k].payload.platform
           result == delivered'[k].payload.result
           posting == HasStatus(T, "posting")
                        \/ Typed(delivered', "content_generated") # {}
           reports == {j \in Typed(delivered', "status_update") :
                         delivered'[j].payload.announcement_id = T}
       IN /\ \A t \in DOMAIN results_buffer :
               t # T => /\ t \in DOMAIN results_buffer'
                        /\ results_buffer'[t] = results_buffer[t]
          /\ posting =>
               IF reports # {}
                 THEN \A j \in reports :
                        delivered'[j].payload.results[platform].success = result.success
                 ELSE /\ T \in DOMAIN results_buffer'
                      /\ platform \in DOMAIN results_buffer'[T]
                      /\ results_buffer'[T][platform] = result]_vars

\* C2: a TASK_ASSIGNMENT for an id with an open record is rejected: record
\* and results stay as they are and ContentAgent gets no second request
C2_DuplicateAssignmentRejected ==
  [][\A k \in Of(delivered', "task_assignment", "MotherAgent") :
       delivered'[k].payload.announcement \in TaskIds(active_tasks) =>
         /\ active_tasks' = active_tasks
         /\ results_buffer' = results_buffer
         /\ Of(delivered', "task_assignment", "ContentAgent") = {}]_vars

\* C3: MotherAgent never holds two open task records for the same id
C3_OneRecordPerId ==
  \A i, j \in 1..Len(active_tasks) :
    i # j => active_tasks[i].id # active_tasks[j].id

\* a second TASK_ASSIGNMENT for an id was just handled while the handler of
\* the first one is suspended at an await
C3_Witness ==
  \E t \in TaskIds(active_tasks) :
    /\ \A c \in Chains :
         pc[c] \in {"llm_wait", "twitter_wait", "mother_wake"} /\ loc[c].ann = t
    /\ \E k \in Of(delivered, "task_assignment", "MotherAgent") :
         delivered[k].payload.announcement = t

\* C4: _finalize_task runs exactly in the step in which the results of a
\* task become as many as there are platform endpoints: the fifth result is
\* recorded in that step, no record keeps five results, the STATUS_UPDATE is
\* sent once and never for a record finalized before, and record and
\* results are deleted
C4_FinalizeOnceAtFullCount ==
  [][/\ \A k \in Typed(delivered', "status_update") :
          LET t == delivered'[k].payload.announcement_id IN
            /\ Count(results_buffer, t) = Len(platform_agents) - 1
            /\ \E j \in Typed(delivered', "post_result") : j < k
            /\ Cardinality(DOMAIN delivered'[k].payload.results) = Len(platform_agents)
            /\ Typed(delivered', "status_update") = {k}
            /\ t \notin TaskIds(active_tasks')
            /\ t \notin DOMAIN results_buffer'
     /\ \A t \in DOMAIN results_buffer' :
          Count(results_buffer', t) < Len(platform_agents)
     /\ ~hist'.refinal]_vars

\* the second record of a run has just been finalized
C4_Witness ==
  /\ Cardinality(hist.finalized) = 2
  /\ Typed(delivered, "status_update") # {}

\* C5: when the system has come to rest, no task record is left and every
\* id FatherAgent forwarded has had its STATUS_UPDATE: exactly one for an
\* id forwarded once, and never more than the id was forwarded
C5_EveryForwardReportedOnce ==
  Quiescent =>
    /\ active_tasks = <<>>
    /\ \A i \in Ids :
         /\ hist.su[i] <= hist.fwd[i]
         /\ hist.fwd[i] > 0 => hist.su[i] > 0

\* C6: the STATUS_UPDATE says 'completed' exactly when a result recorded
\* for the task (the earlier ones and the one of this step) succeeded, and
\* 'failed' otherwise
C6_StatusCompletedIffSuccess ==
  [][\A k \in Typed(delivered', "status_update") :
       \A j \in Typed(delivered', "post_result") :
         LET status_update == delivered'[k].payload
             last == delivered'[j].payload
             recorded == Put(results_buffer[status_update.announcement_id],
                             last.platform, last.result)
         IN /\ status_update.status \in {"completed", "failed"}
            /\ status_update.status = "completed" <=>
                 \E p \in DOMAIN recorded : recorded[p].success]_vars

\* a STATUS_UPDATE 'completed' for a task with a failed endpoint
C6_Witness ==
  \E k \in Typed(delivered, "status_update") :
    /\ delivered[k].payload.status = "completed"
    /\ \E p \in DOMAIN delivered[k].payload.results :
         ~delivered[k].payload.results[p].success

\* C7: for a task that is the only open one, the STATUS_UPDATE has one
\* entry per endpoint with that endpoint's own success flag, and after
\* finalization the id is in neither active_tasks nor results_buffer
C7_SingleTaskReport ==
  \A k \in Typed(delivered, "status_update") :
    LET status_update == delivered[k].payload IN
      /\ status_update.announcement_id = loc["main"].ann
      /\ DOMAIN status_update.results = PlatformKeys
      /\ \A p \in PlatformKeys :
           status_update.results[p].success = (p \in working)
      /\ status_update.announcement_id \notin TaskIds(active_tasks)
      /\ status_update.announcement_id \notin DOMAIN results_buffer

\* the only task was finalized with four successes and one failure
C7_Witness ==
  /\ Typed(delivered, "status_update") # {}
  /\ Cardinality(working) = Len(platform_agents) - 1

\* C8: a TASK_ASSIGNMENT for an id whose earlier task has closed creates a
\* record that was not finalized before; while enrichment is awaited it is
\* in generating_content with no content and no results, and when the step
\* goes on to posting its results are at most those of this step
C8_FreshRecordAfterClose ==
  [][\A k \in Of(delivered', "task_assignment", "MotherAgent") :
       LET t == delivered'[k].payload.announcement
           i == TaskIndex(active_tasks', t)
       IN (t \notin TaskIds(active_tasks) /\ hist.su[t] > 0) =>
            /\ i # 0
            /\ active_tasks'[i].started_at \notin hist.finalized
            /\ active_tasks'[i].post_results = EmptyMap
            /\ IF Typed(delivered', "content_generated") = {}
                 THEN /\ active_tasks'[i].status = "generating_content"
                      /\ active_tasks'[i].generated_content = NoContent
                      /\ results_buffer'[t] = EmptyMap
                 ELSE DOMAIN results_buffer'[t] \subseteq
                        {delivered'[j].payload.platform :
                           j \in Typed(delivered', "post_result")}]_vars

\* the record of a re-submitted id has just been created
C8_Witness ==
  \E k \in Of(delivered, "task_assignment", "MotherAgent") :
    LET t == delivered[k].payload.announcement IN
      /\ hist.su[t] > 0
      /\ HasStatus(t, "generating_content")
      /\ Count(results_buffer, t) = 0

\* C9: when ContentAgent has an announcement to enrich it sends exactly one
\* CONTENT_GENERATED, whose content is built for that announcement, from
\* the raw announcement when the LLM did not answer; and a record in
\* generating_content always gets to posting
C9_EnrichmentNeverStalls ==
  /\ [][(\/ pc["main"] = "llm_wait" /\ pc'["main"] # "llm_wait"
         \/ llm = "none" /\ Of(delivered', "task_assignment", "ContentAgent") # {})
          => Cardinality(Typed(delivered', "content_generated")) = 1]_vars
  /\ [](\A k \in Typed(delivered, "content_generated") :
          /\ delivered[k].payload.generated_content # NoContent
          /\ delivered[k].payload.generated_content.title_zh
               = delivered[k].payload.announcement
          /\ llm # "answers" =>
               delivered[k].payload.generated_content.kind \in {"raw", "fallback"})
  /\ \A t \in Ids : HasStatus(t, "generating_content") ~> HasStatus(t, "posting")

\* a record reached posting with content built without an answer of the LLM
C9_Witness ==
  \E i \in 1..Len(active_tasks) :
    /\ active_tasks[i].status = "posting"
    /\ active_tasks[i].generated_content.kind \in {"raw", "fallback"}
    /\ llm # "none"

\* C10: a POST_REQUEST carries the task_id of its task and the POST_RESULT
\* answering it carries the same task_id
C10_TaskIdRoundTrip ==
  [][/\ \A k \in Typed(delivered', "post_request") :
          /\ "task_id" \in DOMAIN delivered'[k].payload
          /\ \E c \in Chains :
               /\ loc'[c] # loc[c]
               /\ delivered'[k].payload.task_id = loc'[c].ann
     /\ \A k \in Typed(delivered', "post_result") :
          /\ "task_id" \in DOMAIN delivered'[k].payload
          /\ delivered'[k].payload.task_id = RequestedTask(k)]_vars

\* C11: _calculate_priority returns min(10, 5 + k) for a title in which k
\* of the six keywords occur: never below 5, never above 10, not smaller
\* than for a title with no more keywords; 7 for 'guo ji guan jun'
C11_PriorityIsCappedCount ==
  priority # None =>
    /\ priority = Min(10, 5 + Matched(title))
    /\ priority >= 5
    /\ priority <= 10
    /\ (earlier # NoCall /\ earlier.matched <= Matched(title)) =>
          earlier.priority <= priority
    /\ title = <<"guo", "ji", "guan", "jun">> => priority = 7
    /\ Matched(title) = Len(high_priority_keywords) => priority = 10

\* a title with all six keywords got its priority after one with fewer
C11_Witness ==
  /\ priority # None
  /\ Matched(title) = Len(high_priority_keywords)
  /\ earlier # NoCall
  /\ earlier.matched = 2

\* the envelopes a handler sent while it handled envelope id
Children(id) ==
  {k \in 1..Len(bus_hist.created) : bus_hist.created[k].parent = id}

\* the ids of the envelopes given to publish(), in the order of the calls
Published ==
  LET IsPublished(e) == e.via = "publish"
      p == SelectSeq(bus_hist.created, IsPublished)
  IN [i \in 1..Len(p) |-> p[i].message.payload]

\* in this step send_message was called with a receiver that is not
\* registered
SentToUnknown ==
  /\ Len(bus_hist'.created) = Len(bus_hist.created) + 1
  /\ bus_hist'.created[Len(bus_hist'.created)].via = "send_direct"
  /\ bus_hist'.created[Len(bus_hist'.created)].message.receiver \notin agents

\* C12: send_direct to a name that is not registered delivers the envelope
\* to no agent and does not enqueue it; registry, subscriber table and
\* queue stay as they are, the sender goes on without an error, and the
\* envelope is not delivered later either
C12_UnknownReceiverDropped ==
  /\ [][SentToUnknown =>
          /\ message_queue' = message_queue
          /\ agents' = agents
          /\ subscribers' = subscribers
          /\ consumer' = consumer
          /\ bus_hist'.started = bus_hist.started]_vars
  /\ [](/\ bus_hist.dropped \cap bus_hist.started = {}
        /\ \A i \in 1..Len(message_queue) :
             message_queue[i].payload \notin bus_hist.dropped)

\* an envelope was dropped, its receiver registered afterwards, and the
\* handler that sent it has returned
C12_Witness ==
  \E k \in bus_hist.dropped :
    /\ bus_hist.created[k].message.receiver \in agents
    /\ bus_hist.created[k].parent \in bus_hist.finished

\* C13: when send_message has returned to a handler, the handler of the
\* envelope it sent to a registered receiver has completed, and so has the
\* handler of every envelope sent from within it
C13_DirectDeliveryIsSynchronous ==
  /\ \A i \in 1..Len(consumer.stack) :
       consumer.stack[i].at \in {"run", "await"} =>
         \A k \in Children(consumer.stack[i].message) :
           k \in bus_hist.finished \cup bus_hist.dropped
  /\ \A id \in bus_hist.finished :
       \A k \in Children(id) : k \in bus_hist.finished \cup bus_hist.dropped

\* a handler goes on after a send_message whose receiver sent an envelope
\* of its own
C13_Witness ==
  /\ consumer.stack # <<>>
  /\ Top(consumer.stack).at = "run"
  /\ \E k \in Children(Top(consumer.stack).message) :
       /\ k \in bus_hist.finished
       /\ \E j \in Children(k) : j \in bus_hist.finished

\* C14: the loop takes the published envelopes in the order of the
\* publish() calls, each at most once, and one per iteration: only the
\* wait for the queue takes an envelope, it takes one, and the loop tests
\* its flag before it waits again
C14_QueueIsFifo ==
  /\ [](/\ Len(bus_hist.dequeued) <= Len(Published)
        /\ \A i \in 1..Len(bus_hist.dequeued) : bus_hist.dequeued[i] = Published[i])
  /\ [][bus_hist'.dequeued # bus_hist.dequeued =>
          /\ Len(bus_hist'.dequeued) = Len(bus_hist.dequeued) + 1
          /\ Len(message_queue') = Len(message_queue) - 1
          /\ consumer.pc = "get"
          /\ consumer'.pc # "get"]_vars

\* the second of two queued envelopes has been taken
C14_Witness ==
  /\ Len(bus_hist.dequeued) >= 2
  /\ consumer.pc = "handling"

\* C16: when the loop is over after a stop, the handlers that were begun
\* have run to their end and no envelope is left in _process_message
C16_StopLetsProcessingFinish ==
  consumer.pc \in {"ended", "cancelled"} =>
    /\ bus_hist.started \subseteq bus_hist.finished \cup bus_hist.raised
    /\ consumer.message = NoMessage

\* the envelope whose _process_message is over with this step
Processed == bus_hist'.created[bus_hist'.dequeued[Len(bus_hist'.dequeued)]].message

\* C15: when _process_message is over for a queued envelope, every
\* callback subscribed to the receiver's name has been invoked, in the
\* order of the subscriptions and whether or not one of them raised; while
\* it runs the callbacks invoked are the first ones of that order
C15_AllCallbacksInOrder ==
  /\ [][(/\ consumer'.pc = "test"
         /\ \/ consumer.pc \in {"handling", "callbacks"}
            \/ bus_hist'.dequeued # bus_hist.dequeued)
          => bus_hist'.invoked =
               [i \in 1..Len(subscribers[Processed.receiver]) |->
                  subscribers[Processed.receiver][i].id]]_vars
  /\ [](consumer.pc = "callbacks" =>
          /\ Len(bus_hist.invoked) = consumer.cb - 1
          /\ \A i \in 1..Len(bus_hist.invoked) :
               bus_hist.invoked[i] = subscribers[consumer.message.receiver][i].id)

\* C17: once stop() has cleared the flag of a loop that has begun, the
\* loop ends; it ends only at the test of the flag, after stop(); when it
\* is over no envelope is taken; and the wait for an empty queue ends with
\* a timeout after which the loop tests its flag again
C17_LoopEndsAfterStop ==
  /\ (consumer.pc # "created" /\ ~running) ~> (consumer.pc = "ended")
  /\ [][/\ (consumer'.pc = "ended" /\ consumer.pc # "ended") =>
             /\ consumer.pc = "test"
             /\ ~running
             /\ bus_hist.stop_called
        /\ consumer.pc = "ended" =>
             /\ consumer' = consumer
             /\ bus_hist'.dequeued = bus_hist.dequeued
        /\ (consumer.pc = "get" /\ message_queue = <<>> /\ consumer' # consumer) =>
             consumer'.pc = "test"]_vars

\* the loop is over after it handled an envelope, and an envelope
\* published since is left in the queue
C17_Witness ==
  /\ consumer.pc = "ended"
  /\ bus_hist.dequeued # <<>>
  /\ message_queue # <<>>

\* the handler that agent a registered last for type t, handle_message if
\* it registered none
LastRegistered(a, t) ==
  LET S == {i \in 1..Len(bus_hist.registrations) :
              /\ bus_hist.registrations[i].agent = a
              /\ bus_hist.registrations[i].msg_type = t}
  IN IF S = {} THEN handle_message ELSE MaxOf(S)

\* C18: an envelope that reaches receive_message gets one frame, that of
\* the handler its receiver registered last for the envelope's type, or of
\* handle_message when it registered none for that type
C18_OneHandlerPerEnvelope ==
  [][\A k \in bus_hist'.started \ bus_hist.started :
       LET m == bus_hist'.created[k].message
           frames == {i \in 1..Len(consumer'.stack) : consumer'.stack[i].message = k}
       IN /\ bus_hist'.started = bus_hist.started \cup {k}
          /\ Len(consumer'.stack) = Len(consumer.stack) + 1
          /\ Cardinality(frames) = 1
          /\ \A i \in frames :
               LET handler == consumer'.stack[i].handler IN
                 /\ consumer'.stack[i].agent = m.receiver
                 /\ handler = LastRegistered(m.receiver, m.msg_type)
                 /\ handler # handle_message =>
                      /\ bus_hist.registrations[handler].msg_type = m.msg_type
                      /\ bus_hist.registrations[handler].agent = m.receiver]_vars

\* an agent registered two handlers for one type and none for the other:
\* an envelope of the first type is with the second handler, one of the
\* other type with handle_message
C18_Witness ==
  /\ Len(bus_hist.registrations) >= 2
  /\ bus_hist.registrations[1] = bus_hist.registrations[2]
  /\ \E i, j \in 1..Len(consumer.stack) :
       /\ consumer.stack[i].handler = 2
       /\ consumer.stack[j].handler = handle_message
       /\ consumer.stack[j].agent = consumer.stack[i].agent

\* C19: a NEW_ANNOUNCEMENT without an announcement changes no counter and
\* no pending entry and sends nothing; one with an announcement adds 1 to
\* received, makes the id pending and sends one TASK_ASSIGNMENT with the
\* announcement, its priority and a timestamp to MotherAgent; forwarded
\* goes up by 1 exactly when that send has returned, it is never above
\* received, and equal to it when the system is at rest
C19_ForwardOnlyWhatArrived ==
  /\ [][/\ \A k \in Of(delivered', "new_announcement", "FatherAgent") :
             LET announcement == delivered'[k].payload.announcement
                 assignments == Of(delivered', "task_assignment", "MotherAgent")
             IN IF announcement = None
                  THEN /\ processing_stats' = processing_stats
                       /\ pending_announcements' = pending_announcements
                       /\ assignments = {}
                       /\ Len(delivered') = 1
                  ELSE /\ processing_stats'.received = processing_stats.received + 1
                       /\ announcement \in pending_announcements'
                       /\ Cardinality(assignments) = 1
                       /\ \A j \in assignments :
                            /\ j > k
                            /\ delivered'[j].sender = "FatherAgent"
                            /\ delivered'[j].payload.announcement = announcement
                            /\ delivered'[j].payload.priority =
                                 Min(10, 5 + Matched(AnnouncementTitle(announcement)))
                            /\ "timestamp" \in DOMAIN delivered'[j].payload
        /\ Of(delivered', "new_announcement", "FatherAgent") = {} =>
             processing_stats'.received = processing_stats.received
        /\ processing_stats'.forwarded = processing_stats.forwarded +
             Cardinality({c \in Chains : loc[c].ann # None /\ loc'[c].ann = None})]_vars
  /\ [](/\ processing_stats.forwarded <= processing_stats.received
        /\ Quiescent => processing_stats.forwarded = processing_stats.received)

\* a NEW_ANNOUNCEMENT without an announcement has just been ignored after
\* an announcement was forwarded
C19_Witness ==
  /\ \E k \in Of(delivered, "new_announcement", "FatherAgent") :
       delivered[k].payload.announcement = None
  /\ processing_stats.forwarded = 1
  /\ processing_stats.received = 1

\* C20: FatherAgent adds 1 to completed and drops the id from the pending
\* set for a STATUS_UPDATE 'completed', adds 1 to failed for 'failed', and
\* changes no counter for another status; completed and failed change in
\* no other way, a pending id is dropped in no other way, and received
\* and forwarded are as they were after a STATUS_UPDATE
C20_StatusUpdateCounts ==
  [][LET updates == Of(delivered', "status_update", "FatherAgent")
         With(status) == {k \in updates : delivered'[k].payload.status = status}
     IN /\ processing_stats'.completed =
             processing_stats.completed + Cardinality(With("completed"))
        /\ processing_stats'.failed =
             processing_stats.failed + Cardinality(With("failed"))
        /\ updates # {} =>
             /\ pending_announcements' =
                  pending_announcements \
                    {delivered'[k].payload.announcement_id : k \in With("completed")}
             /\ processing_stats'.received = processing_stats.received
             /\ processing_stats'.forwarded = processing_stats.forwarded
        /\ updates = {} => pending_announcements \subseteq pending_announcements']_vars

\* a STATUS_UPDATE that is neither 'completed' nor 'failed' has just been
\* delivered for an id that is pending after its task failed
C20_Witness ==
  /\ \E k \in Of(delivered, "status_update", "FatherAgent") :
       /\ delivered[k].payload.status = "posting"
       /\ delivered[k].payload.announcement_id \in pending_announcements
  /\ processing_stats.failed = 1

\* C21: check_and_notify sends a NEW_ANNOUNCEMENT for an id only when none
\* was sent for it before: the id is not in the processed set and no
\* TASK_ASSIGNMENT for it has been forwarded, also for two articles of one
\* scan with the same id
C21_EachIdNotifiedOnce ==
  [][\A k \in Of(delivered', "new_announcement", "FatherAgent") :
       LET announcement == delivered'[k].payload.announcement IN
         /\ announcement \notin processed_ids
         /\ hist.fwd[announcement] = 0]_vars

\* C22: a CONTENT_GENERATED for a record that is already in posting starts
\* no fan-out (no POST_REQUEST is sent) and leaves the record as it is; the
\* fan-out is for a record in generating_content
C22_FanOutOnlyWhenEnriching ==
  [][\A k \in Of(delivered', "content_generated", "MotherAgent") :
       LET t == delivered'[k].payload.announcement
           assigned == \E j \in Of(delivered', "task_assignment", "MotherAgent") : j < k
       IN (~assigned /\ HasStatus(t, "posting")) =>
            /\ Typed(delivered', "post_request") = {}
            /\ active_tasks' = active_tasks]_vars

\* C23: the fan-out of one CONTENT_GENERATED sends one POST_REQUEST at a
\* time, first to TwitterAgent in the step that handles the
\* CONTENT_GENERATED and then to FacebookAgent, InstagramAgent,
\* LinkedInAgent and RedditAgent, each after the endpoint before it has
\* answered and returned; the handler ends only after the fifth
C23_FanOutInFixedOrder ==
  [][LET requests == Typed(delivered', "post_request")
         order == <<"TwitterAgent", "FacebookAgent", "InstagramAgent",
                    "LinkedInAgent", "RedditAgent">>
     IN /\ Cardinality(requests) <= 1
        /\ \A k \in requests :
             LET idx == loc'["main"].idx IN
               /\ idx \in 1..5
               /\ delivered'[k].receiver = order[idx]
               /\ delivered'[k].payload.task_id = loc'["main"].ann
               /\ IF Typed(delivered', "content_generated") # {}
                    THEN /\ idx = 1
                         /\ \A j \in Typed(delivered', "content_generated") : j = k - 1
                    ELSE /\ idx = loc["main"].idx + 1
                         /\ pc["main"] = "mother_wake"
                         /\ k = 1
               /\ IF pc'["main"] = "twitter_wait"
                    THEN idx = 1 /\ k = Len(delivered')
                    ELSE /\ pc'["main"] = "mother_wake"
                         /\ k < Len(delivered')
                         /\ delivered'[k + 1].msg_type = "post_result"
                         /\ delivered'[k + 1].sender = order[idx]
        /\ (Typed(delivered', "content_generated") # {}) => requests # {}
        /\ (pc["main"] = "twitter_wait" /\ pc'["main"] # "twitter_wait") =>
             /\ delivered'[1].msg_type = "post_result"
             /\ delivered'[1].sender = "TwitterAgent"
             /\ pc'["main"] = "mother_wake"
             /\ loc'["main"].idx = 1
        /\ (pc["main"] = "mother_wake" /\ pc'["main"] # "mother_wake") =>
             /\ requests = {}
             /\ loc["main"].idx = 5]_vars

\* RedditAgent has just got the last POST_REQUEST of a fan-out in which
\* TwitterAgent failed
C23_Witness ==
  /\ pc["main"] = "mother_wake"
  /\ loc["main"].idx = 5
  /\ "twitter" \notin working
  /\ \E k \in Typed(delivered, "post_request") : delivered[k].receiver = "RedditAgent"

\* C24: an endpoint answers the POST_REQUEST it handles with one
\* POST_RESULT to MotherAgent, in the same step or, for TwitterAgent, after
\* its rate-limit sleep; when its platform call fails (no credentials, an
\* HTTP error, an exception) the result has success = false and names the
\* failure, and no exception leaves the handler
C24_OneResultPerRequest ==
  [][LET requests == Typed(delivered', "post_request")
         results == Typed(delivered', "post_result")
         waited == pc["main"] = "twitter_wait" /\ pc'["main"] # "twitter_wait"
         waits == pc["main"] # "twitter_wait" /\ pc'["main"] = "twitter_wait"
         Answers(j, agent) ==
           LET result == delivered'[j].payload.result IN
             /\ delivered'[j].sender = agent
             /\ delivered'[j].receiver = "MotherAgent"
             /\ delivered'[j].payload.platform = PlatformKey(agent)
             /\ result.platform = PlatformKey(agent)
             /\ result.success = (PlatformKey(agent) \in working)
             /\ ~result.success => result.error = failure
     IN /\ Cardinality(results) =
             Cardinality(requests) + (IF waited THEN 1 ELSE 0) - (IF waits THEN 1 ELSE 0)
        /\ \A k \in requests :
             IF waits
               THEN delivered'[k].receiver = "TwitterAgent"
               ELSE k + 1 \in results /\ Answers(k + 1, delivered'[k].receiver)
        /\ waited => 1 \in results /\ Answers(1, "TwitterAgent")
        /\ \A j \in results : j = 1 \/ j - 1 \in requests
        /\ (requests # {} \/ waited) => pc'["main"] \in {"twitter_wait", "mother_wake"}]_vars

\* FacebookAgent has just reported a call that raised, after TwitterAgent
\* reported a call that worked
C24_Witness ==
  /\ failure = "exception"
  /\ working = {"twitter"}
  /\ \E k \in Typed(delivered, "post_result") :
       /\ delivered[k].sender = "FacebookAgent"
       /\ ~delivered[k].payload.result.success
  /\ "twitter" \in DOMAIN results_buffer[loc["main"].ann]

\* the POST_RESULT at position k of this step's envelopes answers no
\* POST_REQUEST of an open task: the consume loop took it from the queue
FromQueue(k) ==
  /\ k = 1
  /\ pc["bus"] = "idle"
  /\ message_queue' # message_queue

\* C25: a POST_RESULT that belongs to no open task is dropped: no task
\* record and no collected result changes and no STATUS_UPDATE is sent,
\* also while another task is posting
C25_StrayResultDropped ==
  [][\A k \in Typed(delivered', "post_result") :
       FromQueue(k) =>
         /\ active_tasks' = active_tasks
         /\ results_buffer' = results_buffer
         /\ Typed(delivered', "status_update") = {}]_vars

\* C26: a CONTENT_GENERATED for an id without a record, such as an id
\* whose record was finalized and deleted and that was not assigned again,
\* is dropped: no record is created, nothing collected changes, and no
\* POST_REQUEST and no STATUS_UPDATE is sent
C26_NoRecordNoFanOut ==
  [][\A k \in Of(delivered', "content_generated", "MotherAgent") :
       LET t == delivered'[k].payload.announcement
           assigned == \E j \in Of(delivered', "task_assignment", "MotherAgent") : j < k
       IN (t # None /\ ~assigned /\ t \notin TaskIds(active_tasks)) =>
            /\ active_tasks' = active_tasks
            /\ results_buffer' = results_buffer
            /\ Typed(delivered', "post_request") = {}
            /\ Typed(delivered', "status_update") = {}
            /\ k = Len(delivered')]_vars

\* a CONTENT_GENERATED with content has just been delivered for an id whose
\* task was finalized before
C26_Witness ==
  \E k \in Of(delivered, "content_generated", "MotherAgent") :
    LET t == delivered[k].payload.announcement IN
      /\ t # None
      /\ delivered[k].payload.generated_content # NoContent
      /\ hist.su[t] > 0
      /\ k = 1
      /\ t \notin TaskIds(active_tasks)

\* the place of an envelope in the pipeline
Rank(m) ==
  CASE m.msg_type = "new_announcement" -> 0
    [] m.msg_type = "task_assignment" /\ m.receiver = "MotherAgent" -> 1
    [] m.msg_type = "task_assignment" /\ m.receiver = "ContentAgent" -> 2
    [] m.msg_type = "content_generated" -> 3
    [] m.msg_type = "post_request" -> 4
    [] m.msg_type = "post_result" -> 5
    [] m.msg_type = "status_update" -> 6

\* the chain that ran in this step
Acted(c) == pc'[c] # pc[c] \/ loc'[c] # loc[c]

\* C27: the envelopes of a task are delivered in the order of the
\* pipeline: NEW_ANNOUNCEMENT, TASK_ASSIGNMENT at MotherAgent, TASK_ASSIGNMENT
\* at ContentAgent, CONTENT_GENERATED, then POST_REQUEST and POST_RESULT,
\* then STATUS_UPDATE; a task goes on where its last await left it; a
\* POST_REQUEST is sent only when the CONTENT_GENERATED of its task has been
\* handled, and a STATUS_UPDATE only right after a POST_RESULT was recorded
\* for a record in posting that holds results
C27_PipelineOrder ==
  [][delivered' # <<>> =>
       /\ \A i \in 1..(Len(delivered') - 1) :
            Rank(delivered'[i + 1]) = Rank(delivered'[i]) + 1
       /\ \E c \in Chains :
            /\ Acted(c)
            /\ Rank(delivered'[1]) =
                 CASE pc[c] \in {"idle", "notify"} -> 0
                   [] pc[c] = "llm_wait" -> 3
                   [] pc[c] = "mother_wake" -> 4
                   [] pc[c] = "twitter_wait" -> 5
            /\ \A k \in 1..Len(delivered') :
                 /\ Rank(delivered'[k]) \in 0..3 =>
                      /\ delivered'[k].payload.announcement \in {loc[c].ann, loc'[c].ann}
                      /\ delivered'[k].payload.announcement # None
                 /\ Rank(delivered'[k]) = 4 =>
                      /\ delivered'[k].payload.task_id = loc'[c].ann
                      /\ loc'[c].content # NoContent
                      /\ \/ k > 1 /\ Rank(delivered'[k - 1]) = 3
                         \/ /\ k = 1
                            /\ loc[c].content = loc'[c].content
                            /\ loc[c].ann = loc'[c].ann
       /\ \A k \in Typed(delivered', "status_update") :
            LET t == delivered'[k].payload.announcement_id IN
              /\ k > 1
              /\ Rank(delivered'[k - 1]) = 5
              /\ Count(results_buffer, t) >= 1
              /\ HasStatus(t, "posting")
              /\ hist.fwd[t] > 0]_vars

\* a task has just been reported in the step in which the POST_REQUEST of
\* another task was answered
C27_Witness ==
  \E k \in Typed(delivered, "status_update") :
    \E j \in Typed(delivered, "post_request") :
      delivered[j].payload.task_id # delivered[k].payload.announcement_id

\* an envelope for MotherAgent that lacks a field its handler needs
Malformed(m) ==
  /\ m.receiver = "MotherAgent"
  /\ \/ m.msg_type = "task_assignment" /\ m.payload.announcement = None
     \/ /\ m.msg_type = "content_generated"
        /\ \/ m.payload.announcement = None
           \/ m.payload.generated_content = NoContent
     \/ /\ m.msg_type = "post_result"
        /\ \/ m.payload.platform = NoPlatform
           \/ m.payload.result = NoResult

\* C28: MotherAgent drops a TASK_ASSIGNMENT without an announcement, a
\* CONTENT_GENERATED without an announcement or without content, and a
\* POST_RESULT without a platform or without a result: active_tasks and
\* results_buffer stay as they are and no envelope is sent
C28_MalformedDropped ==
  [][\A k \in 1..Len(delivered') :
       Malformed(delivered'[k]) =>
         /\ k = 1
         /\ Len(delivered') = 1
         /\ active_tasks' = active_tasks
         /\ results_buffer' = results_buffer
         /\ pc'["bus"] = "idle"]_vars

\* a POST_RESULT without a result has just been dropped while a task is
\* posting
C28_Witness ==
  /\ delivered # <<>>
  /\ delivered[1].msg_type = "post_result"
  /\ delivered[1].payload.platform # NoPlatform
  /\ delivered[1].payload.result = NoResult
  /\ FindPostingTask(active_tasks) # None

\* C29: a record leaves active_tasks only in a step that finalizes it with
\* the results of all five endpoints; when an endpoint is not registered,
\* a record in posting stays in posting and no STATUS_UPDATE is sent
C29_OpenForeverWithoutEndpoint ==
  [][/\ \A t \in TaskIds(active_tasks) \ TaskIds(active_tasks') :
          \E k \in Typed(delivered', "status_update") :
            /\ delivered'[k].payload.announcement_id = t
            /\ DOMAIN delivered'[k].payload.results = PlatformKeys
     /\ agents # AllAgents =>
          /\ \A t \in Ids : HasStatus(t, "posting") => HasStatus(t, "posting")'
          /\ Typed(delivered', "status_update") = {}
          /\ \A t \in DOMAIN results_buffer' :
               Count(results_buffer', t) < Len(platform_agents)]_vars

\* C30: when the handler of a queued envelope raises, the loop is back at
\* the test of its flag, which is as it was, and the queue is untouched;
\* the loop ends only after stop(); and an envelope that is published
\* after a handler raised is taken from the queue and its handler runs to
\* its end, unless stop() ended the loop first
C30_LoopSurvivesHandlerException ==
  /\ [][/\ bus_hist'.raised # bus_hist.raised =>
             /\ consumer'.pc = "test"
             /\ consumer'.stack = <<>>
             /\ running' = running
             /\ message_queue' = message_queue
        /\ consumer'.pc = "ended" => bus_hist'.stop_called]_vars
  /\ \A i \in 1..MaxMsgs :
       (/\ bus_hist.raised # {}
        /\ i <= Len(bus_hist.created)
        /\ i \notin bus_hist.raised)
         ~> \/ i \in bus_hist.finished \cup bus_hist.raised
            \/ bus_hist.stop_called /\ consumer.pc = "ended"

\* the handler of an envelope has returned after the handler of an earlier
\* envelope raised, and the loop is still running
C30_Witness ==
  /\ running
  /\ ~bus_hist.stop_called
  /\ \E i \in bus_hist.raised : \E j \in bus_hist.finished : j > i

\* the envelope with payload k was handed to publish()
WasPublished(k) ==
  /\ k <= Len(bus_hist.created)
  /\ bus_hist.created[k].via = "publish"

\* C31: publish is never refused and never waits, however many envelopes
\* are queued: whenever a task can call it, the call appends the envelope
\* to the queue at once.  While the loop is not stopped, every published
\* envelope is eventually taken from the queue, and the envelope taken is
\* handed to receive_message of the agent registered under its receiver
C31_PublishNeverBlocksAndDelivers ==
  /\ [](Suspended /\ Len(bus_hist.created) < MaxMsgs =>
          \A r \in AgentNames : ENABLED PublishEnvelope("new_announcement", r))
  /\ [][Len(bus_hist'.created) = Len(bus_hist.created) + 1 =>
          /\ Len(message_queue') = Len(message_queue) + 1
          /\ message_queue'[Len(message_queue')] =
               bus_hist'.created[Len(bus_hist'.created)].message
          /\ consumer' = consumer]_vars
  /\ [][Len(bus_hist'.dequeued) = Len(bus_hist.dequeued) + 1 =>
          LET m == Head(message_queue) IN
            /\ bus_hist'.dequeued[Len(bus_hist'.dequeued)] = m.payload
            /\ m.receiver \in agents
            /\ m.payload \in bus_hist'.started
            /\ Len(consumer'.stack) = 1
            /\ consumer'.stack[1].agent = m.receiver
            /\ consumer'.stack[1].message = m.payload]_vars
  /\ \A k \in 1..MaxMsgs :
       WasPublished(k) ~> (k \in bus_hist.started \/ bus_hist.stop_called)

\* a published envelope is in its receiver's handler while two more are
\* queued, the later of them published onto a queue that was not empty
C31_Witness ==
  /\ ~bus_hist.stop_called
  /\ consumer.pc = "handling"
  /\ WasPublished(consumer.message.payload)
  /\ consumer.message.payload \in bus_hist.started
  /\ Len(message_queue) >= 2

\* the handler frames that begin in this step
Begun ==
  {i \in 1..Len(consumer'.stack) :
     i > Len(consumer.stack) \/ consumer'.stack[i].message # consumer.stack[i].message}

\* C32: the registry holds, under every name, the object that was
\* constructed last with that name, and every envelope that reaches a
\* handler, from the queue or by send_message, reaches the handler of that
\* object: never that of an object registered earlier under the name
C32_LastRegistrationWins ==
  /\ [](\A a \in AgentNames :
          /\ registered[a] = bus_hist.constructed[a]
          /\ a \in agents <=> registered[a] # NoAgent)
  /\ [][\A i \in Begun :
          /\ consumer'.stack[i].object # NoAgent
          /\ consumer'.stack[i].object = bus_hist.constructed[consumer'.stack[i].agent]]_vars

\* a handler of the first object named agent_a suspended, a second object
\* took the name, and the envelope the first then sent to its own name is
\* in the handler of the second
C32_Witness ==
  \E i, j \in 1..Len(consumer.stack) :
    /\ i < j
    /\ consumer.stack[i].agent = consumer.stack[j].agent
    /\ consumer.stack[i].object = 1
    /\ consumer.stack[j].object = 2
    /\ consumer.stack[j].message \in Children(consumer.stack[i].message)

RECURSIVE StatusUpdates(_)
StatusUpdates(n) == IF n = 0 THEN 0 ELSE hist.su[n] + StatusUpdates(n - 1)

\* C34: with check_and_notify as the only source of envelopes and all
\* agents registered, MotherAgent never has two open records, and no
\* record is open when check_and_notify is between two announcements or
\* sends the NEW_ANNOUNCEMENT of the next one: the pipeline of every
\* announcement sent so far has gone through its STATUS_UPDATE and the
\* deletion of its record before the send that started it returned
C34_OneOpenRecord ==
  /\ [](/\ Len(active_tasks) <= 1
        /\ pc["main"] \in {"idle", "notify"} =>
             /\ active_tasks = <<>>
             /\ results_buffer = EmptyMap
             /\ StatusUpdates(MaxAnn) = announced - Len(todo))
  /\ [][Of(delivered', "new_announcement", "FatherAgent") # {} =>
          /\ active_tasks = <<>>
          /\ \A t \in TaskIds(active_tasks') : t = Head(todo)]_vars

\* the record of a second announcement is open, in its fan-out, after the
\* record of the first was finalized and deleted
C34_Witness ==
  /\ Len(active_tasks) = 1
  /\ active_tasks[1].id = 2
  /\ active_tasks[1].status = "posting"
  /\ hist.su[1] = 1
  /\ 1 \notin DOMAIN results_buffer

\* the position in this step's envelopes of a POST_RESULT that MotherAgent
\* handles in the state before the step (only its POST_REQUEST, which
\* changes nothing of MotherAgent, may come before it), 0 when none
FirstResult ==
  IF Len(delivered') >= 1 /\ delivered'[1].msg_type = "post_result" THEN 1
  ELSE IF /\ Len(delivered') >= 2
          /\ delivered'[1].msg_type = "post_request"
          /\ delivered'[2].msg_type = "post_result" THEN 2
  ELSE 0

\* C35: the results of a task are counted by endpoint name.  A POST_RESULT
\* of a name that has reported for the task replaces the earlier result,
\* the count stays, and the task is not finalized by it; one of a new name
\* adds one; a task is finalized with the results of five distinct names
C35_CountedPerEndpoint ==
  /\ [](\A t \in DOMAIN results_buffer :
          /\ DOMAIN results_buffer[t] \subseteq PlatformKeys
          /\ Count(results_buffer, t) < ExpectedCount)
  /\ [][LET k == FirstResult
            t == FindPostingTask(active_tasks)
        IN k # 0 /\ t # None =>
             LET platform == delivered'[k].payload.platform
                 result == delivered'[k].payload.result
                 reports == Of(delivered', "status_update", "FatherAgent")
             IN IF platform \in DOMAIN results_buffer[t]
                  THEN /\ t \in DOMAIN results_buffer'
                       /\ results_buffer'[t] = [results_buffer[t] EXCEPT ![platform] = result]
                       /\ Count(results_buffer', t) = Count(results_buffer, t)
                       /\ reports = {}
                  ELSE IF Count(results_buffer, t) + 1 < ExpectedCount
                    THEN /\ t \in DOMAIN results_buffer'
                         /\ Count(results_buffer', t) = Count(results_buffer, t) + 1
                         /\ results_buffer'[t][platform] = result
                         /\ reports = {}
                    ELSE /\ t \notin DOMAIN results_buffer'
                         /\ Cardinality(reports) = 1]_vars
  /\ [][\A k \in Of(delivered', "status_update", "FatherAgent") :
          DOMAIN delivered'[k].payload.results = PlatformKeys]_vars

\* every endpoint works and the fan-out of the only task is past
\* TwitterAgent, whose successful result was recorded; a failed result
\* under TwitterAgent's name has just come from the queue and replaced it
C35_Witness ==
  /\ working = PlatformKeys
  /\ pc["main"] = "mother_wake"
  /\ Len(active_tasks) = 1
  /\ active_tasks[1].id = loc["main"].ann
  /\ active_tasks[1].status = "posting"
  /\ Len(delivered) = 1
  /\ delivered[1].msg_type = "post_result"
  /\ delivered[1].payload.platform = "twitter"
  /\ ~delivered[1].payload.result.success
  /\ results_buffer[active_tasks[1].id]["twitter"] = delivered[1].payload.result
  /\ Count(results_buffer, active_tasks[1].id) = loc["main"].idx

\* the positions in this step's envelopes at which FatherAgent accepts a
\* NEW_ANNOUNCEMENT for the id i, and at which it handles a 'completed'
\* STATUS_UPDATE for i
Accepted(i) ==
  {k \in Of(delivered', "new_announcement", "FatherAgent") :
     delivered'[k].payload.announcement = i}

Completed(i) ==
  {k \in Of(delivered', "status_update", "FatherAgent") :
     /\ delivered'[k].payload.status = "completed"
     /\ delivered'[k].payload.announcement_id = i}

\* C36: an id is pending exactly when the last thing FatherAgent did for
\* it was to accept a NEW_ANNOUNCEMENT, and not to handle a 'completed'
\* STATUS_UPDATE: it enters the set when it is accepted, leaves it only
\* with a 'completed' STATUS_UPDATE for it, and stays in it through a
\* 'failed' one
C36_PendingUntilCompleted ==
  /\ [][\A i \in 1..(MaxAnn + 1) :
          IF Accepted(i) \cup Completed(i) = {}
            THEN i \in pending_announcements' <=> i \in pending_announcements
            ELSE i \in pending_announcements' <=>
                   MaxOf(Accepted(i) \cup Completed(i)) \in Accepted(i)]_vars
  /\ [](\A i \in pending_announcements : i # None /\ processing_stats.received > 0)

\* the task of id 1 has reported 'failed', nothing is left to deliver, and
\* id 1 is still pending
C36_Witness ==
  /\ Quiescent
  /\ working = {}
  /\ hist.fwd[1] = 1
  /\ hist.su[1] = 1
  /\ processing_stats.failed = 1
  /\ message_queue = <<>>
  /\ active_tasks = <<>>
  /\ 1 \in pending_announcements

\* C37: what is raised in a handler that was reached by send_message
\* leaves the handlers that awaited it.  When the task is cancelled in
\* TwitterAgent's handler during the fan-out, the handler ends without its
\* POST_RESULT and the task is over: no POST_REQUEST goes to the endpoints
\* later in the list, FatherAgent does not count the forwarding, and the
\* record stays open as it was, in this step and ever after
C37_ExceptionAbortsFanOut ==
  /\ [][(/\ pc["bus"] = "twitter_wait"
         /\ pc'["bus"] # "twitter_wait"
         /\ Of(delivered', "post_result", "MotherAgent") = {}) =>
          /\ pc'["bus"] = "cancelled"
          /\ delivered' = <<>>
          /\ active_tasks' = active_tasks
          /\ results_buffer' = results_buffer
          /\ HasStatus(loc["bus"].ann, "posting")
          /\ processing_stats' = processing_stats]_vars
  /\ [][pc["bus"] = "cancelled" =>
          /\ pc'["bus"] = "cancelled"
          /\ delivered' = <<>>
          /\ active_tasks' = active_tasks
          /\ results_buffer' = results_buffer
          /\ processing_stats' = processing_stats]_vars
  /\ [](pc["bus"] = "cancelled" =>
          processing_stats.forwarded < processing_stats.received)

\* the task was cancelled in TwitterAgent's rate-limit sleep for the second
\* announcement: its record is open in 'posting' without a result, and the
\* forwarding of the first announcement only has been counted
C37_Witness ==
  /\ pc["bus"] = "cancelled"
  /\ twitter_last_post
  /\ Len(active_tasks) = 1
  /\ active_tasks[1].status = "posting"
  /\ Count(results_buffer, active_tasks[1].id) = 0
  /\ processing_stats.received = 2
  /\ processing_stats.forwarded = 1

\* C38: active_tasks and results_buffer have the same keys whenever a task
\* is at an await: an id has a results entry exactly when it has a record
C38_SameKeys == TaskIds(active_tasks) = DOMAIN results_buffer

\* two records are open, one of them with results and one without
C38_Witness ==
  /\ Len(active_tasks) = 2
  /\ \E t \in DOMAIN results_buffer : Count(results_buffer, t) > 0
  /\ \E t \in DOMAIN results_buffer : Count(results_buffer, t) = 0

\* the ids of the callbacks subscribed to the name, in the order of the
\* subscribe() calls
SubscribedTo(name) ==
  [i \in 1..Len(subscribers[name]) |-> subscribers[name][i].id]

\* C39: a callback is invoked only in _process_message, for the envelope
\* that was taken from the queue, and it is one subscribed to the receiver
\* of that envelope; a send_message invokes none, whether its receiver is
\* registered or not and whatever is subscribed to it; and an envelope
\* taken from the queue for a name that has subscribers and no agent goes
\* to the callbacks at once and has every one of them invoked, in order
C39_CallbacksOnlyFromQueue ==
  /\ [][bus_hist'.invoked # bus_hist.invoked /\ bus_hist'.invoked # <<>> =>
          /\ consumer.pc = "callbacks"
          /\ WasPublished(consumer.message.payload)
          /\ consumer.message.payload = bus_hist.dequeued[Len(bus_hist.dequeued)]
          /\ bus_hist'.invoked =
               Append(bus_hist.invoked,
                      subscribers[consumer.message.receiver][consumer.cb].id)
          /\ bus_hist'.created = bus_hist.created]_vars
  /\ [][(/\ Len(bus_hist'.created) = Len(bus_hist.created) + 1
         /\ bus_hist'.created[Len(bus_hist'.created)].via = "send_direct") =>
          /\ bus_hist'.invoked = bus_hist.invoked
          /\ consumer'.pc = "handling"
          /\ consumer'.message = consumer.message
          /\ consumer'.cb = consumer.cb]_vars
  /\ [][(/\ Len(bus_hist'.dequeued) = Len(bus_hist.dequeued) + 1
         /\ Head(message_queue).receiver \notin agents
         /\ subscribers[Head(message_queue).receiver] # <<>>) =>
          /\ consumer'.pc = "callbacks"
          /\ consumer'.message = Head(message_queue)
          /\ consumer'.cb = 1]_vars
  /\ [][consumer.pc = "callbacks" /\ consumer'.pc # "callbacks" =>
          bus_hist'.invoked = SubscribedTo(consumer.message.receiver)]_vars

\* the handler of agent_a sent an envelope to agent_b, which has no agent
\* and two subscribers, and no callback was invoked for it; an envelope
\* published for agent_b has then had both callbacks invoked
C39_Witness ==
  /\ consumer.pc = "test"
  /\ Len(subscribers["agent_b"]) = 2
  /\ bus_hist.invoked = SubscribedTo("agent_b")
  /\ Len(bus_hist.dequeued) = 2
  /\ bus_hist.created[bus_hist.dequeued[2]].message.receiver = "agent_b"
  /\ \E k \in bus_hist.dropped :
       /\ bus_hist.created[k].message.receiver = "agent_b"
       /\ bus_hist.created[k].parent = bus_hist.dequeued[1]

\* C40: every MessageBus() call returns the instance that the first call
\* created, and a call after the first changes nothing: the agents under
\* their names, the callbacks of every name, the queued envelopes and
\* _running are after the call what they were before it (the constructor
\* of an agent then registers that agent, and nothing else)
C40_SingletonKeepsState ==
  /\ [](instance # NoInstance => instance = Singleton /\ bus_hist.instances = 1)
  /\ [][instance # NoInstance => instance' = instance]_vars
  /\ [][(/\ instance # NoInstance
         /\ bus_hist'.orchestrators = bus_hist.orchestrators + 1) =>
          /\ agents' = agents
          /\ registered' = registered
          /\ subscribers' = subscribers
          /\ message_queue' = message_queue
          /\ running' = running]_vars
  /\ [][instance # NoInstance =>
          \A a \in AgentNames :
            bus_hist'.constructed[a] = bus_hist.constructed[a] + 1 =>
              /\ agents' = agents \cup {a}
              /\ \A b \in AgentNames \ {a} : registered'[b] = registered[b]
              /\ registered'[a] = bus_hist'.constructed[a]
              /\ subscribers' = subscribers
              /\ message_queue' = message_queue
              /\ running' = running]_vars

\* the MessageBus() call of an orchestrator found two agents,
\* a callback and two queued envelopes in a bus that was running, and all
\* are still there
C40_Witness ==
  /\ instance = Singleton
  /\ bus_hist.orchestrators = 1
  /\ bus_hist.found = [agents |-> 2, callbacks |-> 1, queued |-> 2]
  /\ agents = AgentNames
  /\ \A a \in AgentNames : bus_hist.constructed[a] = 1 /\ registered[a] = 1
  /\ Len(message_queue) = 2
  /\ Len(bus_hist.created) = 2
  /\ bus_hist.dequeued = <<>>
  /\ \E a \in AgentNames : Len(subscribers[a]) = 1
  /\ running

====
